---- MODULE Spec2Model ----
(***************************************************************************)
(* A model of jsrmx: the NDJSON bundle / unbundle engine, its sources and  *)
(* sinks, and the JSON text they read and write.                           *)
(*                                                                         *)
(* Text is a sequence of one-character strings.  A JSON value is a tagged  *)
(* record; an object holds its members as a sequence of <<key, value>>     *)
(* pairs sorted by key without duplicates (serde_json's default Map is a   *)
(* BTreeMap), so equal values are equal records.                           *)
(***************************************************************************)
EXTENDS Integers, Sequences, FiniteSets, TLC

(***************************************************************************)
(* Characters                                                              *)
(***************************************************************************)
NL == "\n"
QUOTE == "\""
BSL == "\\"

\* The characters of the model in byte order (used to order object keys).
AsciiOrder ==
  << NL, " ", QUOTE, ",", ".", "/", "0", "1", "2", "3", "4", "5", "6", "7",
     "8", "9", ":", "[", BSL, "]", "a", "b", "c", "d", "e", "f", "g", "h",
     "i", "j", "k", "l", "m", "n", "o", "p", "q", "r", "s", "t", "u", "v",
     "w", "x", "y", "z", "{", "}" >>

Code(c) == CHOOSE k \in 1..Len(AsciiOrder) : AsciiOrder[k] = c

Digits == <<"0", "1", "2", "3", "4", "5", "6", "7", "8", "9">>
IsDigit(c) == \E k \in 1..10 : Digits[k] = c
DigitVal(c) == (CHOOSE k \in 1..10 : Digits[k] = c) - 1
IsSpace(c) == c \in {" ", NL}

\* str < str of Rust (byte-wise lexicographic order)
RECURSIVE StrLess(_, _)
StrLess(a, b) ==
  IF b = <<>> THEN FALSE
  ELSE IF a = <<>> THEN TRUE
  ELSE IF Head(a) = Head(b) THEN StrLess(Tail(a), Tail(b))
  ELSE Code(Head(a)) < Code(Head(b))

RECURSIVE Concat(_)
Concat(ss) == IF ss = <<>> THEN <<>> ELSE Head(ss) \o Concat(Tail(ss))

\* s[from..] (empty when from is past the end)
Drop(s, from) == SubSeq(s, from, Len(s))

(***************************************************************************)
(* JSON values (serde_json::Value)                                         *)
(***************************************************************************)
JNull == [t |-> "null"]
JBool(b) == [t |-> "bool", b |-> b]
JNum(n) == [t |-> "num", n |-> n]
JStr(s) == [t |-> "str", s |-> s]
JArr(xs) == [t |-> "arr", a |-> xs]
JObj(kv) == [t |-> "obj", o |-> kv]

\* Map::get
ObjHas(kv, key) == \E k \in 1..Len(kv) : kv[k][1] = key
ObjGet(kv, key) == kv[CHOOSE k \in 1..Len(kv) : kv[k][1] = key][2]

\* Map::insert: replaces the value of an existing key, else inserts in key order
RECURSIVE ObjPut(_, _, _)
ObjPut(kv, key, val) ==
  IF kv = <<>> THEN << <<key, val>> >>
  ELSE IF Head(kv)[1] = key THEN << <<key, val>> >> \o Tail(kv)
  ELSE IF StrLess(key, Head(kv)[1]) THEN << <<key, val>> >> \o kv
  ELSE << Head(kv) >> \o ObjPut(Tail(kv), key, val)

(***************************************************************************)
(* Serialization (serde_json::to_writer / to_writer_pretty)                *)
(***************************************************************************)
RECURSIVE NumText(_)
NumText(n) == IF n < 10 THEN << Digits[n + 1] >>
              ELSE NumText(n \div 10) \o << Digits[(n % 10) + 1] >>

EscapeChar(c) ==
  IF c = QUOTE THEN << BSL, QUOTE >>
  ELSE IF c = BSL THEN << BSL, BSL >>
  ELSE IF c = NL THEN << BSL, "n" >>
  ELSE << c >>

RECURSIVE EscapeChars(_)
EscapeChars(s) == IF s = <<>> THEN <<>> ELSE EscapeChar(Head(s)) \o EscapeChars(Tail(s))

StrText(s) == << QUOTE >> \o EscapeChars(s) \o << QUOTE >>

RECURSIVE Spaces(_)
Spaces(n) == IF n = 0 THEN <<>> ELSE <<" ">> \o Spaces(n - 1)

\* the line break and indentation the pretty formatter writes before an item
\* at nesting depth d; nothing in compact form
Indent(pretty, d) == IF pretty THEN << NL >> \o Spaces(2 * d) ELSE <<>>

RECURSIVE SerAt(_, _, _), SerItems(_, _, _), SerMembers(_, _, _)
SerAt(v, pretty, d) ==
  CASE v.t = "null" -> <<"n", "u", "l", "l">>
    [] v.t = "bool" -> IF v.b THEN <<"t", "r", "u", "e">> ELSE <<"f", "a", "l", "s", "e">>
    [] v.t = "num" -> NumText(v.n)
    [] v.t = "str" -> StrText(v.s)
    [] v.t = "arr" ->
         IF v.a = <<>> THEN <<"[", "]">>
         ELSE <<"[">> \o SerItems(v.a, pretty, d + 1) \o Indent(pretty, d) \o <<"]">>
    [] v.t = "obj" ->
         IF v.o = <<>> THEN <<"{", "}">>
         ELSE <<"{">> \o SerMembers(v.o, pretty, d + 1) \o Indent(pretty, d) \o <<"}">>

SerItems(xs, pretty, d) ==
  Indent(pretty, d) \o SerAt(Head(xs), pretty, d)
    \o (IF Len(xs) = 1 THEN <<>> ELSE <<",">> \o SerItems(Tail(xs), pretty, d))

SerMembers(kv, pretty, d) ==
  Indent(pretty, d) \o StrText(Head(kv)[1]) \o <<":">>
    \o (IF pretty THEN <<" ">> ELSE <<>>) \o SerAt(Head(kv)[2], pretty, d)
    \o (IF Len(kv) = 1 THEN <<>> ELSE <<",">> \o SerMembers(Tail(kv), pretty, d))

\* serde_json::to_string / Value::to_string (compact)
to_string(v) == SerAt(v, FALSE, 0)
\* serde_json::to_writer or to_writer_pretty, by the sink's pretty flag
Serialize(v, pretty) == SerAt(v, pretty, 0)

\* the write_all calls the serializer makes on its writer, in order: one for
\* each bracket, quote, separator, run of unescaped characters, escape,
\* number or literal, and in pretty form one for each line break and each
\* level of indentation
RECURSIVE StrRuns(_, _)
StrRuns(s, run) ==
  IF s = <<>> THEN (IF run = <<>> THEN <<>> ELSE << run >>)
  ELSE IF EscapeChar(Head(s)) = << Head(s) >> THEN StrRuns(Tail(s), Append(run, Head(s)))
  ELSE (IF run = <<>> THEN <<>> ELSE << run >>) \o << EscapeChar(Head(s)) >> \o StrRuns(Tail(s), <<>>)

StrPieces(s) == << << QUOTE >> >> \o StrRuns(s, <<>>) \o << << QUOTE >> >>

RECURSIVE IndentPieces(_)
IndentPieces(d) == IF d = 0 THEN <<>> ELSE << << " ", " " >> >> \o IndentPieces(d - 1)

\* begin_array_value / begin_object_key
BeginPieces(pretty, d, first) ==
  IF pretty THEN << (IF first THEN << NL >> ELSE << ",", NL >>) >> \o IndentPieces(d)
  ELSE IF first THEN <<>> ELSE << << "," >> >>

\* end_array / end_object of a value that has items, before the bracket
ClosePieces(pretty, d) == IF pretty THEN << << NL >> >> \o IndentPieces(d) ELSE <<>>

RECURSIVE Pieces(_, _, _), ItemPieces(_, _, _, _), MemberPieces(_, _, _, _)
Pieces(v, pretty, d) ==
  CASE v.t \in {"null", "bool", "num"} -> << SerAt(v, pretty, d) >>
    [] v.t = "str" -> StrPieces(v.s)
    [] v.t = "arr" ->
         IF v.a = <<>> THEN << << "[" >>, << "]" >> >>
         ELSE << << "[" >> >> \o ItemPieces(v.a, pretty, d + 1, TRUE)
                \o ClosePieces(pretty, d) \o << << "]" >> >>
    [] v.t = "obj" ->
         IF v.o = <<>> THEN << << "{" >>, << "}" >> >>
         ELSE << << "{" >> >> \o MemberPieces(v.o, pretty, d + 1, TRUE)
                \o ClosePieces(pretty, d) \o << << "}" >> >>

ItemPieces(xs, pretty, d, first) ==
  BeginPieces(pretty, d, first) \o Pieces(Head(xs), pretty, d)
    \o (IF Len(xs) = 1 THEN <<>> ELSE ItemPieces(Tail(xs), pretty, d, FALSE))

MemberPieces(kv, pretty, d, first) ==
  BeginPieces(pretty, d, first) \o StrPieces(Head(kv)[1])
    \o << (IF pretty THEN << ":", " " >> ELSE << ":" >>) >>
    \o Pieces(Head(kv)[2], pretty, d)
    \o (IF Len(kv) = 1 THEN <<>> ELSE MemberPieces(Tail(kv), pretty, d, FALSE))

(***************************************************************************)
(* Parsing (serde_json::from_str).  A result is                            *)
(*   [ok |-> TRUE, val |-> value, pos |-> next position]   or              *)
(*   [ok |-> FALSE, err |-> "eof" | "syntax"]                              *)
(* where "eof" is serde_json's Category::Eof (Error::is_eof).              *)
(***************************************************************************)
POk(v, p) == [ok |-> TRUE, val |-> v, pos |-> p]
PErr(e) == [ok |-> FALSE, err |-> e]

RECURSIVE SkipWs(_, _)
SkipWs(s, p) == IF p <= Len(s) /\ IsSpace(s[p]) THEN SkipWs(s, p + 1) ELSE p

\* parse_ident: the rest of a literal
RECURSIVE ParseIdent(_, _, _, _)
ParseIdent(s, p, rest, v) ==
  IF rest = <<>> THEN POk(v, p)
  ELSE IF p > Len(s) THEN PErr("eof")
  ELSE IF s[p] # Head(rest) THEN PErr("syntax")
  ELSE ParseIdent(s, p + 1, Tail(rest), v)

\* the characters of a string after its opening quote, up to the closing one
RECURSIVE ParseStrFrom(_, _, _)
ParseStrFrom(s, p, acc) ==
  IF p > Len(s) THEN PErr("eof")
  ELSE IF s[p] = QUOTE THEN POk(acc, p + 1)
  ELSE IF s[p] = NL THEN PErr("syntax")
  ELSE IF s[p] = BSL THEN
    IF p + 1 > Len(s) THEN PErr("eof")
    ELSE IF s[p + 1] \in {QUOTE, BSL, "/"} THEN ParseStrFrom(s, p + 2, Append(acc, s[p + 1]))
    ELSE IF s[p + 1] = "n" THEN ParseStrFrom(s, p + 2, Append(acc, NL))
    ELSE PErr("syntax")
  ELSE ParseStrFrom(s, p + 1, Append(acc, s[p]))

RECURSIVE ParseDigits(_, _, _)
ParseDigits(s, p, acc) ==
  IF p <= Len(s) /\ IsDigit(s[p]) THEN ParseDigits(s, p + 1, 10 * acc + DigitVal(s[p]))
  ELSE POk(JNum(acc), p)

RECURSIVE ParseValue(_, _), ParseSeq(_, _, _), ParseMap(_, _, _)
ParseValue(s, p0) ==
  LET p == SkipWs(s, p0) IN
  IF p > Len(s) THEN PErr("eof")
  ELSE LET c == s[p] IN
    CASE c = "n" -> ParseIdent(s, p + 1, <<"u", "l", "l">>, JNull)
      [] c = "t" -> ParseIdent(s, p + 1, <<"r", "u", "e">>, JBool(TRUE))
      [] c = "f" -> ParseIdent(s, p + 1, <<"a", "l", "s", "e">>, JBool(FALSE))
      [] c = "0" -> IF p + 1 <= Len(s) /\ IsDigit(s[p + 1]) THEN PErr("syntax")
                    ELSE POk(JNum(0), p + 1)
      [] IsDigit(c) /\ c # "0" -> ParseDigits(s, p, 0)
      [] c = QUOTE -> LET r == ParseStrFrom(s, p + 1, <<>>) IN
                      IF r.ok THEN POk(JStr(r.val), r.pos) ELSE r
      [] c = "[" ->
           LET q == SkipWs(s, p + 1) IN
           IF q > Len(s) THEN PErr("eof")
           ELSE IF s[q] = "]" THEN POk(JArr(<<>>), q + 1)
           ELSE ParseSeq(s, q, <<>>)
      [] c = "{" ->
           LET q == SkipWs(s, p + 1) IN
           IF q > Len(s) THEN PErr("eof")
           ELSE IF s[q] = "}" THEN POk(JObj(<<>>), q + 1)
           ELSE ParseMap(s, q, <<>>)
      [] OTHER -> PErr("syntax")

\* the elements of an array from position p (an element is due at p)
ParseSeq(s, p, acc) ==
  LET r == ParseValue(s, p) IN
  IF ~r.ok THEN r
  ELSE LET q == SkipWs(s, r.pos) IN
    IF q > Len(s) THEN PErr("eof")
    ELSE IF s[q] = "]" THEN POk(JArr(Append(acc, r.val)), q + 1)
    ELSE IF s[q] = "," THEN
      LET q2 == SkipWs(s, q + 1) IN
      IF q2 <= Len(s) /\ s[q2] = "]" THEN PErr("syntax")
      ELSE ParseSeq(s, q2, Append(acc, r.val))
    ELSE PErr("syntax")

\* the members of an object from position p (a key is due at p)
ParseMap(s, p, acc) ==
  IF p > Len(s) THEN PErr("eof")
  ELSE IF s[p] # QUOTE THEN PErr("syntax")
  ELSE LET k == ParseStrFrom(s, p + 1, <<>>) IN
    IF ~k.ok THEN k
    ELSE LET c == SkipWs(s, k.pos) IN
      IF c > Len(s) THEN PErr("eof")
      ELSE IF s[c] # ":" THEN PErr("syntax")
      ELSE LET r == ParseValue(s, c + 1) IN
        IF ~r.ok THEN r
        ELSE LET q == SkipWs(s, r.pos) IN
          IF q > Len(s) THEN PErr("eof")
          ELSE IF s[q] = "}" THEN POk(JObj(ObjPut(acc, k.val, r.val)), q + 1)
          ELSE IF s[q] = "," THEN
            LET q2 == SkipWs(s, q + 1) IN
            IF q2 <= Len(s) /\ s[q2] = "}" THEN PErr("syntax")
            ELSE ParseMap(s, q2, ObjPut(acc, k.val, r.val))
          ELSE PErr("syntax")

\* serde_json::from_str::<Value>: one value, then only white space
FromStr(s) ==
  LET r == ParseValue(s, 1) IN
  IF ~r.ok THEN r
  ELSE IF SkipWs(s, r.pos) <= Len(s) THEN PErr("syntax")
  ELSE r

(***************************************************************************)
(* JSON pointers and dotted field paths                                    *)
(***************************************************************************)
Some(v) == [some |-> TRUE, v |-> v]
None == [some |-> FALSE]

\* str::split(sep): the pieces between separators (always at least one)
RECURSIVE SplitAcc(_, _, _)
SplitAcc(s, sep, cur) ==
  IF s = <<>> THEN << cur >>
  ELSE IF Head(s) = sep THEN << cur >> \o SplitAcc(Tail(s), sep, <<>>)
  ELSE SplitAcc(Tail(s), sep, Append(cur, Head(s)))

Split(s, sep) == SplitAcc(s, sep, <<>>)

RECURSIVE Join(_, _)
Join(parts, sep) ==
  IF parts = <<>> THEN <<>>
  ELSE IF Len(parts) = 1 THEN Head(parts)
  ELSE Head(parts) \o << sep >> \o Join(Tail(parts), sep)

\* "/" + str.split('.').join("/")
dots_to_slashes_no_root(str) == Join(Split(str, "."), "/")
dots_to_slashes(str) == <<"/">> \o Join(Split(str, "."), "/")

\* serde_json's parse_index: a decimal index with no leading zero
RECURSIVE DigitsVal(_, _)
DigitsVal(s, acc) == IF s = <<>> THEN acc ELSE DigitsVal(Tail(s), 10 * acc + DigitVal(Head(s)))

parse_index(token) ==
  IF token = <<>> \/ (Head(token) = "0" /\ Len(token) # 1) THEN None
  ELSE IF \A k \in 1..Len(token) : IsDigit(token[k]) THEN Some(DigitsVal(token, 0))
  ELSE None

\* the fold of Value::pointer over the reference tokens
RECURSIVE Walk(_, _)
Walk(v, tokens) ==
  IF tokens = <<>> THEN Some(v)
  ELSE IF v.t = "obj" THEN
    IF ObjHas(v.o, Head(tokens)) THEN Walk(ObjGet(v.o, Head(tokens)), Tail(tokens)) ELSE None
  ELSE IF v.t = "arr" THEN
    LET ix == parse_index(Head(tokens)) IN
    IF ix.some /\ ix.v < Len(v.a) THEN Walk(v.a[ix.v + 1], Tail(tokens)) ELSE None
  ELSE None

\* Value::pointer (the model's texts hold no "~", so no ~0 / ~1 unescaping)
pointer(v, ptr) ==
  IF ptr = <<>> THEN Some(v)
  ELSE IF Head(ptr) # "/" THEN None
  ELSE Walk(v, Tail(Split(ptr, "/")))

\* *v.pointer_mut(ptr) = new, for a pointer that resolves
RECURSIVE Put(_, _, _)
Put(v, tokens, new) ==
  IF tokens = <<>> THEN new
  ELSE IF v.t = "obj" THEN
    JObj(ObjPut(v.o, Head(tokens), Put(ObjGet(v.o, Head(tokens)), Tail(tokens), new)))
  ELSE
    LET k == parse_index(Head(tokens)).v + 1 IN
    JArr([v.a EXCEPT ![k] = Put(v.a[k], Tail(tokens), new)])

pointer_set(v, ptr, new) ==
  IF ptr = <<>> THEN new ELSE Put(v, Tail(Split(ptr, "/")), new)

(***************************************************************************)
(* Field codec (JsonField)                                                 *)
(***************************************************************************)
\* str::replace("\\\"", "\""): every backslash-quote pair becomes a quote
RECURSIVE replace_escaped_quotes(_)
replace_escaped_quotes(s) ==
  IF s = <<>> THEN <<>>
  ELSE IF Len(s) >= 2 /\ s[1] = BSL /\ s[2] = QUOTE
    THEN << QUOTE >> \o replace_escaped_quotes(Drop(s, 3))
  ELSE << Head(s) >> \o replace_escaped_quotes(Tail(s))

\* JsonField::from(value).unescape()
unescape(v) ==
  IF v.t = "str" THEN
    LET r == FromStr(replace_escaped_quotes(v.s)) IN IF r.ok THEN r.val ELSE JNull
  ELSE v

\* JsonField::from(value).escape()
escape_always_encodes(v) == JStr(to_string(v))
escape(v) == IF v.t = "str" THEN JStr(v.s) ELSE JStr(to_string(v))

\* fields.iter().for_each(|field| json.pointer_mut(..).map(|value| *value = f(value)))
RECURSIVE unescape_fields(_, _)
unescape_fields(json, fields) ==
  IF fields = <<>> THEN json
  ELSE LET ptr == dots_to_slashes(Head(fields))
           hit == pointer(json, ptr)
       IN unescape_fields(IF hit.some THEN pointer_set(json, ptr, unescape(hit.v)) ELSE json,
                          Tail(fields))

RECURSIVE escape_fields(_, _)
escape_fields(json, fields) ==
  IF fields = <<>> THEN json
  ELSE LET ptr == dots_to_slashes(Head(fields))
           hit == pointer(json, ptr)
       IN escape_fields(IF hit.some THEN pointer_set(json, ptr, escape(hit.v)) ELSE json,
                        Tail(fields))

(***************************************************************************)
(* Bounds and the input pools                                              *)
(***************************************************************************)
\* the most lines an NDJSON input holds
MaxLines == 2

\* a byte that is not valid UTF-8: BufRead::read_line fails on a line holding it
BADBYTE == "#"

Key(c) == << c >>
RowA == JObj(<< << Key("n"), JStr(<<"a">>) >> >>)
RowB == JObj(<< << Key("n"), JStr(<<"b">>) >>, << Key("t"), JStr(<<"x">>) >> >>)
RowC == JObj(<< << Key("m"), JNum(1) >>, << Key("n"), JStr(<<"a">>) >>, << Key("t"), JNum(2) >> >>)
RowD == JObj(<< << Key("m"), JStr(<<"c">>) >> >>)
\* a row whose name holds a path separator
RowE == JObj(<< << Key("n"), JStr(<<"a", "/", "b">>) >> >>)
Rows == {RowA, RowB, RowC, RowD}

\* one line of NDJSON: the compact text of a value and a newline
Line(v) == to_string(v) \o << NL >>
GoodLines == { Line(v) : v \in Rows }
\* a line that is no JSON at all (a syntax error)
GarbageLine == << "}", NL >>
\* a line cut off inside an object (unexpected end of input)
TruncatedLine == << "{", QUOTE, "n", QUOTE, ":", NL >>
\* a blank line (unexpected end of input)
BlankLine == << NL >>
\* a line that is not UTF-8
BadUtf8Line == << BADBYTE, NL >>
LinePool == GoodLines \cup {GarbageLine, TruncatedLine, BlankLine, BadUtf8Line}

RECURSIVE SeqsUpTo(_, _)
SeqsUpTo(S, n) ==
  IF n = 0 THEN { <<>> }
  ELSE LET shorter == SeqsUpTo(S, n - 1) IN
       shorter \cup { Append(q, e) : q \in { r \in shorter : Len(r) = n - 1 }, e \in S }

\* the texts of the inputs: up to MaxLines lines, the last one with or without
\* its newline
FullTexts == { Concat(ls) : ls \in SeqsUpTo(LinePool, MaxLines) }
Texts == FullTexts \cup { SubSeq(txt, 1, Len(txt) - 1) : txt \in FullTexts \ { <<>> } }

\* the most files a source directory holds
MaxFiles == 2

FileNames == { <<"a">> \o << ".", "j", "s", "o", "n" >>,
               <<"b">> \o << ".", "j", "s", "o", "n" >>,
               << "a", ".", "t", "x", "t" >> }
\* what a file of the source directory holds: an object in compact or pretty
\* form, or text that is no JSON
FileTexts == { to_string(v) : v \in Rows \cup {RowE} } \cup { Serialize(RowB, TRUE), << "}" >> }

\* the source directories: up to MaxFiles files
SourceDirs ==
  UNION { [ns -> FileTexts] : ns \in { n \in SUBSET FileNames : Cardinality(n) <= MaxFiles } }

\* --name lists, --type and --unescape / --escape paths (dotted)
NamePathLists == { <<>>, << Key("n") >>, << Key("m"), Key("n") >> }
TypePaths == { None, Some(Key("t")) }
\* "q" is a member of no row
FieldLists == { <<>>, << Key("t") >>, << Key("q"), Key("t") >> }

(***************************************************************************)
(* State                                                                   *)
(***************************************************************************)
VARIABLES
  cmd,          \* the subcommand running: "unbundle", "bundle", "bundle_legacy"
  pc,           \* the position in its code
  result,       \* what it returned: "none" (running), "Ok", "Err", "panic"
  srcKind,      \* Input variant: "File", "Stdin", "Directory"
  srcText,      \* File / Stdin: the bytes of the source
  srcPos,       \* File / Stdin: the shared cursor, the next byte to read
  srcDir,       \* Directory: file name -> text
  sinkKind,     \* Output variant: "Directory", "File", "Stdout"
  pretty,       \* the sink's pretty flag
  sinkDirOk,    \* Directory: the directory exists or can be created
  sinkDir,      \* Directory: file name -> text written
  sinkText,     \* File / Stdout: the bytes appended
  namePaths,    \* unbundle: the --name list
  typePath,     \* unbundle: the --type path, None when not given
  fields,       \* the --unescape (unbundle) or --escape (bundle) paths
  buf,          \* unbundle: the line buffer
  i,            \* unbundle: the sequence counter
  todo,         \* bundle: the directory entries still to be visited
  entries,      \* bundle: the entries collected by get_entries
  chained,      \* TRUE once unbundle runs on the file a bundle wrote
  log,          \* history: the reads and writes done so far, in order
  filter,       \* merge / split: the --filter pattern, None when not given
  threads,      \* the concurrent callers or workers: id -> its position and locals
  lock,         \* the Mutex shared by the clones: its holder and its poison flag
  writer,       \* File sink: the shared BufWriter, the bytes it holds, whether it is open,
                \* and how many bytes its last flush left unwritten
  fetched       \* File / Stdin: how far the shared BufReader has read its source

vars == << cmd, pc, result, srcKind, srcText, srcPos, srcDir, sinkKind, pretty,
           sinkDirOk, sinkDir, sinkText, namePaths, typePath, fields, buf, i,
           todo, entries, chained, log, filter, threads, lock, writer, fetched >>

srcVars == << srcKind, srcText, srcPos, srcDir >>
sinkVars == << sinkDir, sinkText >>
cfgVars == << cmd, sinkKind, pretty, sinkDirOk, namePaths, typePath, fields, filter >>
bundleVars == << todo, entries, chained >>
concVars == << threads, lock, writer, fetched >>

\* no concurrent caller; the Mutex free and not poisoned
NoThreads == << >>
Unlocked == [holder |-> 0, poisoned |-> FALSE]
NoWriter == [held |-> <<>>, open |-> FALSE, lost |-> 0, pos |-> 0, append |-> FALSE, base |-> <<>>]

NoFiles == << >>

(***************************************************************************)
(* Source: Input::read_line                                                *)
(***************************************************************************)
\* the end of the chunk BufRead::read_line takes from position p: through the
\* next newline, or to the end of the text
RECURSIVE ChunkEnd(_, _)
ChunkEnd(text, p) ==
  IF p > Len(text) THEN Len(text)
  ELSE IF text[p] = NL THEN p
  ELSE ChunkEnd(text, p + 1)

\* [ok, buf, pos]: the chunk is appended to buf; a chunk that is not UTF-8 is
\* consumed and is an error that leaves buf as it was; a Directory has no lines
read_line(kind, text, p, b) ==
  IF kind = "Directory" THEN [ok |-> FALSE, buf |-> b, pos |-> p]
  ELSE LET e == ChunkEnd(text, p)
           chunk == SubSeq(text, p, e)
       IN IF \E k \in 1..Len(chunk) : chunk[k] = BADBYTE
          THEN [ok |-> FALSE, buf |-> b, pos |-> e + 1]
          ELSE [ok |-> TRUE, buf |-> b \o chunk, pos |-> e + 1]

(***************************************************************************)
(* Sinks: write_entries of DirectoryOutput, FileOutput and StreamOutput    *)
(***************************************************************************)
JsonExt == << ".", "j", "s", "o", "n" >>

\* DirectoryOutput::write_file: creates or truncates <dir>/<filename>; opening
\* fails when the name leads into a directory that does not exist
write_file(files, filename, content, p) ==
  IF \E k \in 1..Len(filename) : filename[k] = "/"
    THEN [ok |-> FALSE, files |-> files]
    ELSE [ok |-> TRUE, files |-> (filename :> Serialize(content, p)) @@ files]

\* serde_json::json!({key: value})
json_entry(key, value) == JObj(<< << key, value >> >>)

\* FileOutput / StreamOutput: the value, then a newline
append_text(text, content, p) == text \o Serialize(content, p) \o << NL >>

\* write_entries for a batch of one entry: [ok, files, text]
write_entries(kind, dirOk, p, files, text, key, value) ==
  IF kind = "Directory" THEN
    IF ~dirOk THEN [ok |-> FALSE, files |-> files, text |-> text]
    ELSE [ok |-> TRUE, text |-> text,
          files |-> write_file(files, key \o JsonExt, value, p).files]
  ELSE [ok |-> TRUE, files |-> files,
        text |-> append_text(text, json_entry(key, value), p)]

(***************************************************************************)
(* NdjsonUnbundler::unbundle                                               *)
(***************************************************************************)
RECURSIVE ZeroPad(_, _)
ZeroPad(s, width) == IF Len(s) >= width THEN s ELSE ZeroPad(<<"0">> \o s, width)

\* format!("object-{i:06}")
default_name_from_one(n) == <<"o", "b", "j", "e", "c", "t", "-">> \o ZeroPad(NumText(n + 1), 6)
default_name(n) == <<"o", "b", "j", "e", "c", "t", "-">> \o ZeroPad(NumText(n), 6)

\* value.as_str().unwrap_or_default()
as_str_or_default(v) == IF v.t = "str" THEN v.s ELSE <<>>

\* name_list.iter().find_map(|name| json.pointer(name))
RECURSIVE find_map_pointer(_, _)
find_map_pointer(json, ptrs) ==
  IF ptrs = <<>> THEN None
  ELSE LET hit == pointer(json, Head(ptrs)) IN
       IF hit.some THEN hit ELSE find_map_pointer(json, Tail(ptrs))

\* the closure name_entry(i, json)
name_entry(n, json, names, type) ==
  LET name_list == [k \in 1..Len(names) |-> dots_to_slashes(names[k])]
      hit == find_map_pointer(json, name_list)
      name == IF hit.some THEN as_str_or_default(hit.v) ELSE default_name(n)
  IN IF type.some THEN
       LET ty == pointer(json, dots_to_slashes(type.v)) IN
       IF ty.some THEN name \o <<".">> \o as_str_or_default(ty.v) ELSE name
     ELSE name

\* serde_json::Error::is_eof
is_eof_all(e) == TRUE
is_eof_never(e) == FALSE
is_eof(e) == e = "eof"

\* i += 1
next_index_stuck(n) == n
next_index(n) == n + 1

\* buf.clear()
clear_nothing(b) == b
clear(b) == <<>>

\* while let Ok(()) = self.input.read_line(&mut buf)
ReadLine ==
  /\ cmd = "unbundle" /\ pc = "read"
  /\ LET r == read_line(srcKind, srcText, srcPos, buf) IN
     /\ srcPos' = r.pos
     /\ buf' = r.buf
     /\ log' = Append(log, [op |-> "read", i |-> i, ok |-> r.ok])
     /\ IF r.ok THEN pc' = "parse" /\ result' = result
                ELSE pc' = "done" /\ result' = "Ok"
  /\ UNCHANGED << concVars, cfgVars, srcKind, srcText, srcDir, sinkVars, i, bundleVars >>

\* the body of the loop: parse the buffer, write the row or skip the line
ProcessLine ==
  /\ cmd = "unbundle" /\ pc = "parse"
  /\ LET r == FromStr(buf) IN
     IF r.ok THEN
       LET json == unescape_fields(r.val, fields)
           name == name_entry(i, json, namePaths, typePath)
           w == write_entries(sinkKind, sinkDirOk, pretty, sinkDir, sinkText, name, json)
       IN /\ sinkDir' = w.files
          /\ sinkText' = w.text
          /\ log' = Append(log, [op |-> "write", i |-> i, ok |-> w.ok, name |-> name, value |-> json])
          /\ IF w.ok THEN pc' = "read" /\ result' = result /\ buf' = clear(buf) /\ i' = next_index(i)
                     ELSE pc' = "done" /\ result' = "Err" /\ buf' = buf /\ i' = i
     ELSE IF is_eof(r.err) THEN
       /\ pc' = "done" /\ result' = "Ok"
       /\ log' = Append(log, [op |-> "eof", i |-> i])
       /\ UNCHANGED << sinkVars, buf, i >>
     ELSE
       /\ pc' = "read" /\ buf' = clear(buf) /\ i' = next_index(i)
       /\ log' = Append(log, [op |-> "skip", i |-> i])
       /\ UNCHANGED << sinkVars, result >>
  /\ UNCHANGED << concVars, cfgVars, srcVars, bundleVars >>

\* the configurations of unbundle: every --name list with every --type on every
\* sink, and on the first of them each other setting varied in turn
UnbundleBase ==
  [names |-> <<>>, type |-> None, fields |-> <<>>, sink |-> "Directory",
   pretty |-> FALSE, dirOk |-> TRUE, src |-> "File"]

UnbundleConfigs ==
  { [UnbundleBase EXCEPT !.names = n, !.type = ty, !.sink = k] :
      n \in NamePathLists, ty \in TypePaths, k \in {"Directory", "File", "Stdout"} }
  \cup { [UnbundleBase EXCEPT !.pretty = TRUE],
         [UnbundleBase EXCEPT !.pretty = TRUE, !.sink = "File"],
         [UnbundleBase EXCEPT !.dirOk = FALSE],
         [UnbundleBase EXCEPT !.src = "Stdin"],
         [UnbundleBase EXCEPT !.src = "Directory"] }
  \cup { [UnbundleBase EXCEPT !.fields = f] : f \in FieldLists }

InitUnbundle ==
  /\ cmd = "unbundle" /\ pc = "read" /\ result = "none"
  /\ \E c \in UnbundleConfigs :
       /\ srcKind = c.src
       /\ namePaths = c.names /\ typePath = c.type /\ fields = c.fields
       /\ sinkKind = c.sink /\ pretty = c.pretty /\ sinkDirOk = c.dirOk
  /\ srcText \in (IF srcKind = "Directory" THEN { <<>> } ELSE Texts)
  /\ srcPos = 1
  /\ srcDir = NoFiles
  /\ sinkDir = NoFiles /\ sinkText = <<>>
  /\ buf = <<>> /\ i = 0
  /\ todo = {} /\ entries = <<>> /\ chained = FALSE
  /\ log = <<>>
  /\ filter = None /\ threads = NoThreads /\ lock = Unlocked
  /\ writer = NoWriter /\ fetched = 0

NextUnbundle == ReadLine \/ ProcessLine

SpecUnbundle == InitUnbundle /\ [][NextUnbundle]_vars

(***************************************************************************)
(* ndjson::unbundle (src/ndjson.rs), the function the library exports      *)
(***************************************************************************)
\* new_name: the string at the one name path, else the default name
legacy_name(n, json, names) ==
  IF names = <<>> THEN default_name(n)
  ELSE LET hit == pointer(json, dots_to_slashes(names[1])) IN
       IF hit.some /\ hit.v.t = "str" THEN hit.v.s ELSE default_name(n)

\* the match on the output: a File sink is refused; a Directory is created
LegacyUnbundleStart ==
  /\ cmd = "unbundle_legacy" /\ pc = "start"
  /\ IF sinkKind = "File" \/ (sinkKind = "Directory" /\ ~sinkDirOk)
       THEN pc' = "done" /\ result' = "Err"
       ELSE pc' = "read" /\ result' = result
  /\ UNCHANGED << concVars, cfgVars, srcVars, sinkVars, buf, i, bundleVars, log >>

\* while let Ok(_) = input.read_line(&mut buf)
LegacyReadLine ==
  /\ cmd = "unbundle_legacy" /\ pc = "read"
  /\ LET r == read_line(srcKind, srcText, srcPos, buf) IN
     /\ srcPos' = r.pos
     /\ buf' = r.buf
     /\ log' = Append(log, [op |-> "read", i |-> i, ok |-> r.ok])
     /\ IF r.ok THEN pc' = "parse" /\ result' = result
                ELSE pc' = "done" /\ result' = "Ok"
  /\ UNCHANGED << concVars, cfgVars, srcKind, srcText, srcDir, sinkVars, i, bundleVars >>

\* the body of the loop: write_json(i, json) writes the row itself, to
\* <new_name>.json (errors ignored) or as a line of standard output
LegacyProcessLine ==
  /\ cmd = "unbundle_legacy" /\ pc = "parse"
  /\ LET r == FromStr(buf) IN
     IF r.ok THEN
       LET name == legacy_name(i, r.val, namePaths)
           w == write_file(sinkDir, name \o JsonExt, r.val, pretty)
       IN /\ IF sinkKind = "Directory"
               THEN sinkDir' = w.files /\ sinkText' = sinkText
               ELSE sinkDir' = sinkDir /\ sinkText' = append_text(sinkText, r.val, pretty)
          /\ log' = Append(log, [op |-> "write", i |-> i, ok |-> sinkKind # "Directory" \/ w.ok,
                                  name |-> name, value |-> r.val])
          /\ pc' = "read" /\ buf' = clear(buf) /\ i' = next_index(i)
          /\ UNCHANGED result
     ELSE IF is_eof(r.err) THEN
       /\ pc' = "done" /\ result' = "Ok"
       /\ log' = Append(log, [op |-> "eof", i |-> i])
       /\ UNCHANGED << sinkVars, buf, i >>
     ELSE
       /\ pc' = "read" /\ buf' = clear(buf) /\ i' = next_index(i)
       /\ log' = Append(log, [op |-> "skip", i |-> i])
       /\ UNCHANGED << sinkVars, result >>
  /\ UNCHANGED << concVars, cfgVars, srcVars, bundleVars >>

\* the configurations of the exported unbundle: with and without a name
\* path on every sink, then one variation at a time
LegacyConfigs ==
  { [UnbundleBase EXCEPT !.names = n, !.sink = k] :
      n \in { <<>>, << Key("n") >> }, k \in {"Directory", "File", "Stdout"} }
  \cup { [UnbundleBase EXCEPT !.pretty = TRUE],
         [UnbundleBase EXCEPT !.pretty = TRUE, !.sink = "Stdout"],
         [UnbundleBase EXCEPT !.dirOk = FALSE],
         [UnbundleBase EXCEPT !.src = "Stdin", !.sink = "Stdout"],
         [UnbundleBase EXCEPT !.src = "Directory"] }

InitUnbundleLegacy ==
  /\ cmd = "unbundle_legacy" /\ pc = "start" /\ result = "none"
  /\ \E c \in LegacyConfigs :
       /\ srcKind = c.src
       /\ namePaths = c.names /\ typePath = c.type /\ fields = c.fields
       /\ sinkKind = c.sink /\ pretty = c.pretty /\ sinkDirOk = c.dirOk
  /\ srcText \in (IF srcKind = "Directory" THEN { <<>> } ELSE Texts)
  /\ srcPos = 1
  /\ srcDir = NoFiles
  /\ sinkDir = NoFiles /\ sinkText = <<>>
  /\ buf = <<>> /\ i = 0
  /\ todo = {} /\ entries = <<>> /\ chained = FALSE
  /\ log = <<>>
  /\ filter = None /\ threads = NoThreads /\ lock = Unlocked
  /\ writer = NoWriter /\ fetched = 0

NextUnbundleLegacy == LegacyUnbundleStart \/ LegacyReadLine \/ LegacyProcessLine

SpecUnbundleLegacy == InitUnbundleLegacy /\ [][NextUnbundleLegacy]_vars

\* both unbundle functions of the repository
InitUnbundleBoth == InitUnbundle \/ InitUnbundleLegacy
NextUnbundleBoth == NextUnbundle \/ NextUnbundleLegacy
SpecUnbundleBoth == InitUnbundleBoth /\ [][NextUnbundleBoth]_vars

\* a step of the command seen from its control point: every step of
\* NextUnbundleBoth moves pc, and the command has a next step exactly while
\* pc is not "done"
LoopStep == cmd \in {"unbundle", "unbundle_legacy"} /\ pc # "done" /\ pc' \in {"read", "parse", "done"} \ {pc}

\* the loop is the only thread of the command and nothing it does waits: it
\* takes its next step as long as it has one
SpecUnbundleRuns ==
  InitUnbundleBoth /\ [][NextUnbundleBoth]_vars /\ WF_pc(LoopStep)

(***************************************************************************)
(* Paths                                                                   *)
(***************************************************************************)
\* Path::extension: what follows the last dot of the file name; none when
\* there is no dot or the only dot is the first character
extension(f) ==
  LET parts == Split(f, ".") IN
  IF Len(parts) = 1 \/ (Len(parts) = 2 /\ parts[1] = <<>>) THEN None
  ELSE Some(parts[Len(parts)])

\* Path::file_stem: the file name without its extension
file_stem(f) ==
  LET parts == Split(f, ".") IN
  IF ~extension(f).some THEN f ELSE Join(SubSeq(parts, 1, Len(parts) - 1), ".")

(***************************************************************************)
(* bundle of src/ndjson.rs ("bundle_legacy"): Input and Output enums       *)
(***************************************************************************)
\* Output::append: [ok, text]; the File of an Output is opened for append, so
\* the row follows what the file already holds
append_to_any(kind, p, text, value) == [ok |-> TRUE, text |-> append_text(text, value, p)]
append(kind, p, text, value) ==
  IF kind = "Directory" THEN [ok |-> FALSE, text |-> text]
  ELSE [ok |-> TRUE, text |-> append_text(text, value, p)]

\* bundle: the sink and source variants it returns an error for
bundle_refuses(sink, src) == sink = "Directory" \/ src \in {"File", "Stdin"}

\* bundle: the checks on the sink and the source, then read_dir
BundleLegacyStart ==
  /\ cmd = "bundle_legacy" /\ pc = "start"
  /\ IF bundle_refuses(sinkKind, srcKind)
       THEN pc' = "done" /\ result' = "Err" /\ todo' = todo
       ELSE pc' = "files" /\ result' = result /\ todo' = DOMAIN srcDir
  /\ UNCHANGED << concVars, cfgVars, srcVars, sinkVars, buf, i, entries, chained, log >>

\* read_directory_to_output: one turn of the loop over the directory, in the
\* order read_dir yields the files (any order)
BundleLegacyFile ==
  /\ cmd = "bundle_legacy" /\ pc = "files"
  /\ \E f \in todo :
       /\ todo' = todo \ {f}
       /\ IF extension(f) = Some(<<"j", "s", "o", "n">>) THEN
            LET r == FromStr(srcDir[f]) IN
            IF r.ok THEN
              LET w == append(sinkKind, pretty, sinkText, r.val) IN
              /\ sinkText' = w.text
              /\ log' = log \o << [op |-> "readfile", file |-> f, ok |-> TRUE],
                                  [op |-> "append", file |-> f, value |-> r.val] >>
              /\ UNCHANGED << pc, result >>
            ELSE
              /\ pc' = "done" /\ result' = "Err"
              /\ log' = Append(log, [op |-> "readfile", file |-> f, ok |-> FALSE])
              /\ UNCHANGED sinkText
          ELSE UNCHANGED << sinkText, pc, result, log >>
  /\ UNCHANGED << concVars, cfgVars, srcVars, sinkDir, buf, i, entries, chained >>

BundleLegacyEnd ==
  /\ cmd = "bundle_legacy" /\ pc = "files" /\ todo = {}
  /\ pc' = "done" /\ result' = "Ok"
  /\ UNCHANGED << concVars, cfgVars, srcVars, sinkVars, buf, i, bundleVars, log >>

(***************************************************************************)
(* NdjsonBundler::bundle, called as main's Commands::Bundle does ("bundle")*)
(***************************************************************************)
\* read_object: the file's text parsed as one JSON value
read_object(text) == FromStr(text)

\* main: a Directory sink is refused; for a File sink FileOutput::new opens
\* the path with truncate before the bundler is called; then
\* InputDirectory::get_entries: read_dir of a path that is no directory
\* fails and expect() panics
BundleStart ==
  /\ cmd = "bundle" /\ pc = "start"
  /\ IF sinkKind = "Directory"
       THEN pc' = "done" /\ result' = "Err" /\ todo' = todo /\ sinkText' = sinkText
       ELSE /\ sinkText' = <<>>
            /\ IF srcKind # "Directory" THEN pc' = "done" /\ result' = "panic" /\ todo' = todo
               ELSE pc' = "scan" /\ result' = result /\ todo' = DOMAIN srcDir
  /\ UNCHANGED << concVars, cfgVars, srcVars, sinkDirOk, sinkDir, buf, i, entries, chained, log >>

\* read_entries: one turn of the loop over the directory (any order); a file
\* that read_object cannot parse ends get_entries in a panic
BundleScan ==
  /\ cmd = "bundle" /\ pc = "scan"
  /\ \E f \in todo :
       /\ todo' = todo \ {f}
       /\ LET r == read_object(srcDir[f]) IN
          IF r.ok THEN
            /\ entries' = Append(entries, << file_stem(f), r.val >>)
            /\ log' = Append(log, [op |-> "readfile", file |-> f, ok |-> TRUE])
            /\ UNCHANGED << pc, result >>
          ELSE
            /\ pc' = "done" /\ result' = "panic"
            /\ log' = Append(log, [op |-> "readfile", file |-> f, ok |-> FALSE])
            /\ UNCHANGED entries
  /\ UNCHANGED << concVars, cfgVars, srcVars, sinkVars, buf, i, chained >>

\* read_entries returns (sort is false)
BundleScanEnd ==
  /\ cmd = "bundle" /\ pc = "scan" /\ todo = {}
  /\ pc' = "emit"
  /\ UNCHANGED << concVars, cfgVars, srcVars, sinkVars, buf, i, bundleVars, result, log >>

\* read_entries_to_output: the closure on the next entry: escape, then append
BundleEmit ==
  /\ cmd = "bundle" /\ pc = "emit" /\ entries # <<>>
  /\ LET json == escape_fields(Head(entries)[2], fields)
         w == append(sinkKind, pretty, sinkText, json)
     IN /\ sinkText' = w.text
        /\ log' = Append(log, [op |-> "append", file |-> Head(entries)[1], value |-> json])
        /\ entries' = Tail(entries)
  /\ UNCHANGED << concVars, cfgVars, srcVars, sinkDir, buf, i, todo, chained, pc, result >>

BundleEnd ==
  /\ cmd = "bundle" /\ pc = "emit" /\ entries = <<>>
  /\ pc' = "done" /\ result' = "Ok"
  /\ UNCHANGED << concVars, cfgVars, srcVars, sinkVars, buf, i, bundleVars, log >>

\* what the file at the sink's path may hold before the command runs
OldText == Line(JNum(1))

InitBundle ==
  /\ cmd \in {"bundle", "bundle_legacy"} /\ pc = "start" /\ result = "none"
  /\ srcKind \in {"Directory", "File", "Stdin"}
  /\ srcDir \in (IF srcKind = "Directory" THEN SourceDirs ELSE { NoFiles })
  /\ srcText = <<>> /\ srcPos = 1
  /\ sinkKind \in {"Directory", "File", "Stdout"}
  /\ pretty = FALSE /\ sinkDirOk = TRUE
  /\ sinkDir = NoFiles
  /\ sinkText \in (IF sinkKind = "File" THEN { <<>>, OldText } ELSE { <<>> })
  /\ namePaths = << Key("n") >> /\ typePath = None
  /\ fields \in (IF cmd = "bundle" THEN FieldLists ELSE { <<>> })
  /\ buf = <<>> /\ i = 0
  /\ todo = {} /\ entries = <<>> /\ chained = FALSE
  /\ log = <<>>
  /\ filter = None /\ threads = NoThreads /\ lock = Unlocked
  /\ writer = NoWriter /\ fetched = 0

NextBundle ==
  \/ BundleLegacyStart \/ BundleLegacyFile \/ BundleLegacyEnd
  \/ BundleStart \/ BundleScan \/ BundleScanEnd \/ BundleEmit \/ BundleEnd

SpecBundle == InitBundle /\ [][NextBundle]_vars

(***************************************************************************)
(* bundle, then unbundle of the file it wrote into an empty directory      *)
(***************************************************************************)
\* the second command: its source is the NDJSON file the first one wrote; it
\* names the rows by namePaths and unescapes the paths the bundle escaped
UnbundleTheBundle ==
  /\ cmd = "bundle" /\ pc = "done" /\ result = "Ok" /\ sinkKind = "File"
  /\ cmd' = "unbundle" /\ pc' = "read" /\ result' = "none"
  /\ srcKind' = "File" /\ srcText' = sinkText /\ srcPos' = 1
  /\ sinkKind' = "Directory" /\ sinkDir' = NoFiles /\ sinkText' = <<>>
  /\ pretty' \in BOOLEAN
  /\ buf' = <<>> /\ i' = 0 /\ log' = <<>> /\ chained' = TRUE
  /\ UNCHANGED << concVars, srcDir, sinkDirOk, namePaths, typePath, fields, filter, todo, entries >>

NextRoundTrip == NextBundle \/ UnbundleTheBundle \/ NextUnbundle

SpecRoundTrip == InitBundle /\ [][NextRoundTrip]_vars

(***************************************************************************)
(* DirectoryOutput::write_entries on a batch, then get_entries on the same *)
(* directory                                                               *)
(***************************************************************************)
\* the most entries a batch holds
MaxEntries == 2

\* the entries of a batch: a name (plain, with a path separator, or empty)
\* and a value
EntryNames == { <<"a">>, <<"b">>, <<"a", "/", "b">>, <<>> }
EntryValues == { JNum(1), RowA }
Entries == { << n, v >> : n \in EntryNames, v \in EntryValues }
Batches == SeqsUpTo(Entries, MaxEntries)

\* OpenOptions write, create, truncate, open: [ok, files]; the file is created
\* or emptied; opening fails when the name leads into a missing directory
open_truncate(files, filename) ==
  IF \E k \in 1..Len(filename) : filename[k] = "/"
    THEN [ok |-> FALSE, files |-> files]
    ELSE [ok |-> TRUE, files |-> (filename :> <<>>) @@ files]

\* the BufWriter is flushed: the bytes go to the start of the file as it is
\* then (another writer of the same file may have written in between)
flush_at_start(files, filename, bytes) ==
  (filename :> (bytes \o Drop(files[filename], Len(bytes) + 1))) @@ files

\* write_entries: create_dir_all, then par_drain hands every entry to a worker
WriteEntriesStart ==
  /\ cmd = "write_entries" /\ pc = "start"
  /\ IF sinkDirOk
       THEN pc' = "writing" /\ result' = result
            /\ threads' = [k \in 1..Len(entries) |-> "todo"]
       ELSE pc' = "returned" /\ result' = "Err" /\ threads' = threads
  /\ UNCHANGED << lock, writer, fetched, cfgVars, srcVars, sinkVars, buf, i, bundleVars, log >>

\* write_file, first half, by any worker: the file is opened; a failure is
\* logged and the worker is done with its entry
WriteFileOpenOrAbort ==
  /\ cmd = "write_entries" /\ pc = "writing"
  /\ \E k \in 1..Len(threads) :
       /\ threads[k] = "todo"
       /\ LET r == open_truncate(sinkDir, entries[k][1] \o JsonExt) IN
          /\ sinkDir' = r.files
          /\ IF r.ok THEN /\ threads' = [threads EXCEPT ![k] = "open"]
                          /\ UNCHANGED << log, pc, result >>
                     ELSE /\ threads' = [threads EXCEPT ![k] = "done"]
                          /\ log' = Append(log, [op |-> "error", k |-> k])
                          /\ pc' = "returned" /\ result' = "Err"
  /\ UNCHANGED << lock, writer, fetched, cfgVars, srcVars, sinkText, buf, i, bundleVars >>

WriteFileOpen ==
  /\ cmd = "write_entries" /\ pc = "writing"
  /\ \E k \in 1..Len(threads) :
       /\ threads[k] = "todo"
       /\ LET r == open_truncate(sinkDir, entries[k][1] \o JsonExt) IN
          /\ sinkDir' = r.files
          /\ IF r.ok THEN /\ threads' = [threads EXCEPT ![k] = "open"]
                          /\ UNCHANGED log
                     ELSE /\ threads' = [threads EXCEPT ![k] = "done"]
                          /\ log' = Append(log, [op |-> "error", k |-> k])
  /\ UNCHANGED << lock, writer, fetched, cfgVars, srcVars, sinkText, buf, i, bundleVars, pc, result >>

\* write_file, second half: the value is serialized and the writer flushed
WriteFileFlush ==
  /\ cmd = "write_entries" /\ pc = "writing"
  /\ \E k \in 1..Len(threads) :
       /\ threads[k] = "open"
       /\ sinkDir' = flush_at_start(sinkDir, entries[k][1] \o JsonExt,
                                    Serialize(entries[k][2], pretty))
       /\ threads' = [threads EXCEPT ![k] = "done"]
       /\ log' = Append(log, [op |-> "written", k |-> k])
  /\ UNCHANGED << lock, writer, fetched, cfgVars, srcVars, sinkText, buf, i, bundleVars, pc, result >>

\* for_each has joined every worker: Ok(())
WriteEntriesEnd ==
  /\ cmd = "write_entries" /\ pc = "writing"
  /\ \A k \in 1..Len(threads) : threads[k] = "done"
  /\ pc' = "returned" /\ result' = "Ok"
  /\ UNCHANGED << concVars, cfgVars, srcVars, sinkVars, buf, i, bundleVars, log >>

\* get_entries(false) on the directory just written: read_dir
GetEntriesStart ==
  /\ cmd = "write_entries" /\ pc = "returned" /\ result = "Ok"
  /\ cmd' = "get_entries" /\ pc' = "scan" /\ result' = "none"
  /\ srcKind' = "Directory" /\ srcDir' = sinkDir /\ todo' = DOMAIN sinkDir
  /\ log' = <<>>
  /\ UNCHANGED << concVars, srcText, srcPos, sinkKind, pretty, sinkDirOk, namePaths,
                  typePath, fields, filter, sinkVars, buf, i, entries, chained >>

\* read_entries: one turn of the loop (any order); the entry is named by the
\* file stem; a file that does not parse ends get_entries in a panic
GetEntriesScan ==
  /\ cmd = "get_entries" /\ pc = "scan"
  /\ \E f \in todo :
       /\ todo' = todo \ {f}
       /\ LET r == read_object(srcDir[f]) IN
          IF r.ok THEN
            /\ log' = Append(log, [op |-> "entry", name |-> file_stem(f), value |-> r.val])
            /\ UNCHANGED << pc, result >>
          ELSE
            /\ pc' = "done" /\ result' = "panic"
            /\ UNCHANGED log
  /\ UNCHANGED << concVars, cfgVars, srcVars, sinkVars, buf, i, entries, chained >>

GetEntriesEnd ==
  /\ cmd = "get_entries" /\ pc = "scan" /\ todo = {}
  /\ pc' = "done" /\ result' = "Ok"
  /\ UNCHANGED << concVars, cfgVars, srcVars, sinkVars, buf, i, bundleVars, log >>

InitDirectory ==
  /\ cmd = "write_entries" /\ pc = "start" /\ result = "none"
  /\ srcKind = "Directory" /\ srcDir = NoFiles /\ srcText = <<>> /\ srcPos = 1
  /\ sinkKind = "Directory" /\ pretty \in BOOLEAN /\ sinkDirOk \in BOOLEAN
  /\ sinkDir = NoFiles /\ sinkText = <<>>
  /\ namePaths = <<>> /\ typePath = None /\ fields = <<>>
  /\ buf = <<>> /\ i = 0
  /\ todo = {} /\ entries \in Batches /\ chained = FALSE
  /\ log = <<>>
  /\ filter = None /\ threads = NoThreads /\ lock = Unlocked
  /\ writer = NoWriter /\ fetched = 0

NextDirectory ==
  \/ WriteEntriesStart \/ WriteFileOpen \/ WriteFileFlush \/ WriteEntriesEnd
  \/ GetEntriesStart \/ GetEntriesScan \/ GetEntriesEnd

SpecDirectory == InitDirectory /\ [][NextDirectory]_vars

(***************************************************************************)
(* processor/json.rs: split and merge, with the regex key filter           *)
(***************************************************************************)
\* Regex::new(pattern).ok(): the patterns modelled are made of literal
\* characters, ".", "^" and "$"; a "(" that is never closed does not compile
regex_new(pattern) ==
  IF \E k \in 1..Len(pattern) :
       \/ pattern[k] = "(" /\ ~\E j \in (k + 1)..Len(pattern) : pattern[j] = ")"
       \/ pattern[k] = ")" /\ ~\E j \in 1..(k - 1) : pattern[j] = "("
    THEN None
    ELSE Some(pattern)

\* the pattern from its position r matches the text at position p: "^" and
\* "$" are the start and the end of the text, "." is any character but a
\* newline, any other character is itself
RECURSIVE MatchHere(_, _, _, _)
MatchHere(re, r, text, p) ==
  IF r > Len(re) THEN TRUE
  ELSE IF re[r] = "^" THEN p = 1 /\ MatchHere(re, r + 1, text, p)
  ELSE IF re[r] = "$" THEN p = Len(text) + 1 /\ MatchHere(re, r + 1, text, p)
  ELSE /\ p <= Len(text)
       /\ (re[r] = "." /\ text[p] # NL) \/ (re[r] # "." /\ re[r] = text[p])
       /\ MatchHere(re, r + 1, text, p + 1)

\* Regex::is_match: the pattern matches somewhere in the text
is_match(re, text) == \E p \in 1..(Len(text) + 1) : MatchHere(re, 1, text, p)

\* the closure includes_key (merge) and the match in filter_map (split), on
\* regex = filter.and_then(|f| Regex::new(&f).ok())
includes_key_without_filter_none(f, key) == f.some /\ regex_new(f.v).some /\ is_match(regex_new(f.v).v, key)
includes_key_fail_closed(f, key) ==
  ~f.some \/ (regex_new(f.v).some /\ is_match(regex_new(f.v).v, key))
includes_key(f, key) ==
  LET regex == IF f.some THEN regex_new(f.v) ELSE None IN
  IF regex.some THEN is_match(regex.v, key) ELSE TRUE

\* entries.into_iter().collect::<Value>(): Map::insert of every entry in turn
RECURSIVE collect(_, _)
collect(kv, es) ==
  IF es = <<>> THEN kv
  ELSE collect(ObjPut(kv, Head(es)[1], Head(es)[2]), Tail(es))

\* merge(entries, filter)
merge(es, f) ==
  IF ~f.some THEN JObj(collect(<<>>, es))
  ELSE JObj(collect(<<>>, SelectSeq(es, LAMBDA e : includes_key(f, e[1]))))

\* Input::get_object: a Directory is an error; a File is read whole with
\* read_hashmap, which accepts a JSON object and nothing else
get_object(kind, text) ==
  IF kind = "Directory" THEN PErr("directory")
  ELSE LET r == FromStr(text) IN
       IF r.ok /\ r.val.t # "obj" THEN PErr("syntax") ELSE r

\* the inputs: objects over the keys a, ab and b, entry lists (names may
\* repeat), and the filters
MaxPairs == 2
JsonKeys == { <<"a">>, <<"a", "b">>, <<"b">> }
JsonValues == { JNum(1), JStr(<<"x">>) }
JsonPairs == { << k, v >> : k \in JsonKeys, v \in JsonValues }
EntryLists == SeqsUpTo(JsonPairs, MaxPairs)
JsonObjects == { JObj(collect(<<>>, es)) : es \in EntryLists }
Filters == { None, Some(<<>>), Some(<<"b">>), Some(<<"^", "a">>), Some(<<"a", "$">>),
             Some(<<".", "b">>), Some(<<"(">>) }

\* split, called as main's split does after get_object: the regex is compiled
\* and par_drain starts on the object's members
SplitStart ==
  /\ cmd = "split" /\ pc = "start"
  /\ LET r == get_object(srcKind, srcText) IN
     IF r.ok
       THEN pc' = "drain" /\ result' = result
            /\ todo' = { r.val.o[k][1] : k \in 1..Len(r.val.o) }
       ELSE pc' = "done" /\ result' = "panic" /\ todo' = todo
  /\ UNCHANGED << concVars, cfgVars, srcVars, sinkVars, buf, i, entries, chained, log >>

\* filter_map on the members, in any order: a member the filter includes is
\* collected into the Vec
SplitEmit ==
  /\ cmd = "split" /\ pc = "drain"
  /\ \E key \in todo :
       /\ todo' = todo \ {key}
       /\ entries' = IF includes_key(filter, key)
                       THEN Append(entries, << key, ObjGet(FromStr(srcText).val.o, key) >>)
                       ELSE entries
  /\ UNCHANGED << concVars, cfgVars, srcVars, sinkVars, buf, i, chained, log, pc, result >>

SplitEnd ==
  /\ cmd = "split" /\ pc = "drain" /\ todo = {}
  /\ pc' = "done" /\ result' = "Ok"
  /\ UNCHANGED << concVars, cfgVars, srcVars, sinkVars, buf, i, bundleVars, log >>

\* merge, given the entries split returned and no filter
MergeTheSplit ==
  /\ cmd = "split" /\ pc = "done" /\ result = "Ok" /\ ~filter.some
  /\ cmd' = "merge" /\ pc' = "start" /\ result' = "none" /\ chained' = TRUE
  /\ UNCHANGED << concVars, srcVars, sinkVars, sinkKind, pretty, sinkDirOk, namePaths,
                  typePath, fields, filter, buf, i, todo, entries, log >>

\* merge returns the object
Merge ==
  /\ cmd = "merge" /\ pc = "start"
  /\ log' = Append(log, [op |-> "merged", value |-> merge(entries, filter)])
  /\ pc' = "done" /\ result' = "Ok"
  /\ UNCHANGED << concVars, cfgVars, srcVars, sinkVars, buf, i, bundleVars >>

InitJson ==
  /\ cmd \in {"split", "merge"} /\ pc = "start" /\ result = "none"
  /\ srcKind = "File" /\ srcDir = NoFiles /\ srcPos = 1
  /\ srcText \in (IF cmd = "split"
                    THEN { to_string(o) : o \in JsonObjects } \cup { << "1" >> }
                    ELSE { <<>> })
  /\ entries \in (IF cmd = "merge" THEN EntryLists ELSE { <<>> })
  /\ filter \in Filters
  /\ sinkKind = "Stdout" /\ pretty = FALSE /\ sinkDirOk = TRUE
  /\ sinkDir = NoFiles /\ sinkText = <<>>
  /\ namePaths = <<>> /\ typePath = None /\ fields = <<>>
  /\ buf = <<>> /\ i = 0 /\ todo = {} /\ chained = FALSE
  /\ log = <<>>
  /\ threads = NoThreads /\ lock = Unlocked
  /\ writer = NoWriter /\ fetched = 0

NextJson == SplitStart \/ SplitEmit \/ SplitEnd \/ MergeTheSplit \/ Merge

SpecJson == InitJson /\ [][NextJson]_vars

(***************************************************************************)
(* Concurrent callers of one sink: FileOutput, StreamOutput and            *)
(* DirectoryOutput append and write_entries, through clones that share the *)
(* writer and its Mutex                                                    *)
(***************************************************************************)
\* the most concurrent callers
MaxThreads == 2

\* Mutex::lock returns once no other thread holds the Mutex
may_lock_anytime(l) == TRUE
may_lock(l) == l.holder = 0

\* the MutexGuard is dropped when the call returns, by return or by `?`
release_never(l, t) == l
release(l, t) == [l EXCEPT !.holder = IF @ = t THEN 0 ELSE @]

\* what a caller does with its clone of the sink: append(value) once for each
\* of its rows, write_entries(entries) (the rows are the entries wrapped as
\* {name: value}), write(value), or, from outside these modules, taking the
\* shared Mutex and panicking while holding it.  "write_entries" is
\* FileOutput::write_entries and StreamOutput::write_entries,
\* "write_entries_par" is Output::write_entries on an Output::File, which
\* hands each entry to append from a pool of workers.
\* n counts the rows done, k the writes done on the row at hand, locks the
\* times the call at hand has taken the Mutex; left are the entries a
\* write_entries_par call has yet to append and cur the one at hand; pretty
\* is the clone's own flag and sets tells that the caller has yet to make a
\* set_pretty call on its clone
Caller(job, rows) ==
  [job |-> job, rows |-> rows, n |-> 0, k |-> 0, pc |-> "call", result |-> "none",
   pretty |-> FALSE, sets |-> FALSE, locks |-> 0, cur |-> 0,
   left |-> IF job = "write_entries_par" THEN DOMAIN rows ELSE {}]

\* a value whose Serialize gives the serializer the first k writes of v and
\* then an error (append<T: Serialize> of FileOutput takes any T)
Failing(v, k) == [t |-> "failing", v |-> v, k |-> k]

\* the row a caller is at
RowOf(c) == IF c.job = "write_entries_par" THEN c.rows[c.cur] ELSE c.rows[c.n + 1]

\* the callers of a FileOutput
SinkCallers ==
  { Caller("append", << JNum(1) >>), Caller("append", << RowA >>),
    Caller("append", << RowA, RowA >>),
    Caller("write_entries", << json_entry(<<"a">>, JNum(1)), json_entry(<<"b">>, RowA) >>),
    Caller("write", << RowA >>),
    Caller("hold", <<>>) }
\* the callers of an Output::File
OutputCallers ==
  { Caller("append", << JNum(1) >>), Caller("append", << RowA, RowA >>),
    Caller("write_entries_par", << json_entry(<<"a">>, JNum(1)), json_entry(<<"b">>, RowA) >>),
    Caller("hold", <<>>) }
\* the callers of a Standard-output sink
StreamCallers ==
  { Caller("append", << JNum(1) >>), Caller("append", << RowA >>),
    Caller("append", << RowA, RowA >>),
    Caller("write_entries", << json_entry(<<"a">>, JNum(1)), json_entry(<<"b">>, JNum(1)) >>),
    Caller("write", << JNum(1) >>) }

ThreadSets(callers) == UNION { [1..n -> callers] : n \in 1..MaxThreads }

\* the callers, none or one of them with a set_pretty call to make, and the
\* flag their clones were made with
WithSets(ts, p) ==
  { [t \in DOMAIN ts |-> [ts[t] EXCEPT !.pretty = p, !.sets = ss[t]]] :
      ss \in { f \in [DOMAIN ts -> BOOLEAN] : \A s, t \in DOMAIN ts : (f[s] /\ f[t]) => s = t } }

\* the callers of one Standard-output sink: one or two at a time; two that
\* both write objects make one append or write_entries call each and no
\* set_pretty call
WritesObject(c) == \E r \in 1..Len(c.rows) : c.rows[r].t = "obj"
StreamThreadSets ==
  { ts \in UNION { WithSets(cs, FALSE) : cs \in ThreadSets(StreamCallers) } :
      /\ Len(ts) <= 2
      /\ \A s, t \in DOMAIN ts :
           (s # t /\ WritesObject(ts[s]) /\ WritesObject(ts[t]))
             => /\ Len(ts[s].rows) = 1 /\ Len(ts[t].rows) = 1
                /\ ~ts[s].sets /\ ~ts[t].sets }

\* FileOutput::set_pretty / StreamOutput::set_pretty on the caller's clone
\* (&mut self), before its first call or between two of its calls; the flag
\* cannot change inside a call (write_entries borrows the clone for all of
\* its entries).  set_pretty() of an Output::File takes no argument and sets
\* the flag
SetPretty ==
  /\ cmd = "sink" /\ sinkKind \in {"File", "Stdout"}
  /\ \E t \in DOMAIN threads :
       /\ threads[t].pc = "call"
       /\ threads[t].job \in {"append", "write_entries", "write_entries_par", "write"}
       /\ threads[t].n = 0 \/ threads[t].job = "append"
       /\ threads[t].sets
       /\ threads' = [threads EXCEPT ![t].pretty = IF writer.append THEN TRUE ELSE ~@,
                                      ![t].sets = FALSE]
  /\ UNCHANGED << lock, writer, fetched, cfgVars, srcVars, sinkVars, buf, i, bundleVars, log, pc, result >>

\* BufWriter::new: the buffer of the shared writer takes 8 KiB
BufSize == 8192

\* a buffer one byte short of full: the rows of earlier append calls on the
\* sink, 1 and, last, ""
EarlierRows == [k \in 1..(BufSize - 4) |-> IF k % 2 = 1 THEN "1" ELSE NL] \o Line(JStr(<<>>))

\* the writes the serializer and writeln! have yet to make for the row a
\* caller is at: the rest of the value (of a value whose Serialize fails,
\* the writes made before the failure), or the newline
Pending(c) ==
  IF c.pc = "row" THEN << << NL >> >>
  ELSE LET row == RowOf(c) IN
       IF row.t = "failing" THEN SubSeq(Pieces(row.v, c.pretty, 0), c.k + 1, row.k)
       ELSE SubSeq(Pieces(row, c.pretty, 0), c.k + 1, Len(Pieces(row, c.pretty, 0)))

\* BufWriter::write_all: a write goes into the buffer when the buffer has
\* room for all of it; how many of the writes ps do, one after another
RECURSIVE FitCount(_, _)
FitCount(ps, room) ==
  IF ps = <<>> \/ Len(Head(ps)) > room THEN 0
  ELSE 1 + FitCount(Tail(ps), room - Len(Head(ps)))

\* a caller under the guard one of whose writes for the row does not fit
\* the buffer (none of the rows here takes half a buffer, so the writes are
\* counted only for a buffer more than half full)
MustFlush(c) ==
  /\ Len(writer.held) > BufSize \div 2
  /\ FitCount(Pending(c), BufSize - Len(writer.held)) < Len(Pending(c))

\* how much of n bytes a write to the file takes before it fails or ends:
\* any part of a few rows, and of a full buffer none, one byte, all but one
\* or all
Cuts(n) == { d \in 0..n : n < BufSize \div 2 \/ d <= 1 \/ d >= n - 1 }

\* the zero byte a file reads as where it was never written
NUL == "\\0"

\* bytes written at a position of a file over what it holds
OverlayAt(text, pos, bytes) ==
  IF bytes = <<>> THEN text
  ELSE LET old == IF Len(text) < pos THEN text \o [k \in 1..(pos - Len(text)) |-> NUL] ELSE text
       IN SubSeq(old, 1, pos) \o bytes
            \o (IF Len(old) > pos + Len(bytes) THEN SubSeq(old, pos + Len(bytes) + 1, Len(old))
                ELSE <<>>)

\* the file after a write through the writer's handle: at the end of the
\* file for the handle of an Output::File, which Output::from_str opens with
\* append(true), and at the handle's own position for that of a FileOutput
WriteAtHandle(bytes) ==
  IF writer.append THEN sinkText \o bytes ELSE OverlayAt(sinkText, writer.pos, bytes)

\* what a caller is left with when one of its append calls has returned.
\* Output::write_entries logs an Err of append and goes on, and returns Ok
\* after its last entry
AfterAppend(c, ok) ==
  IF c.job = "write_entries_par"
    THEN IF c.left \ { c.cur } = {}
           THEN [c EXCEPT !.pc = "returned", !.n = @ + 1, !.k = 0, !.left = {}, !.result = "Ok"]
           ELSE [c EXCEPT !.pc = "call", !.n = @ + 1, !.k = 0, !.left = @ \ { c.cur }]
  ELSE IF ~ok THEN [c EXCEPT !.pc = "returned", !.k = 0, !.result = "Err"]
  ELSE IF c.n + 1 < Len(c.rows)
    THEN [c EXCEPT !.pc = "call", !.n = @ + 1, !.k = 0, !.locks = 0]
  ELSE [c EXCEPT !.pc = "returned", !.n = @ + 1, !.k = 0, !.result = "Ok"]

\* FileOutput::append / write_entries and Output::append:
\* writer.lock().expect(..): a poisoned Mutex makes the caller panic (a
\* worker of write_entries_par panics and the pool hands the panic to the
\* call).  A write_entries_par call takes the Mutex for one of the entries it
\* has left, in any order
FileLock ==
  /\ cmd = "sink" /\ sinkKind = "File"
  /\ \E t \in DOMAIN threads :
       /\ threads[t].pc = "call"
       /\ threads[t].job \in {"append", "write_entries", "write_entries_par"}
       /\ may_lock(lock)
       /\ IF lock.poisoned
            THEN /\ threads' = [threads EXCEPT ![t].pc = "panicked", ![t].result = "panic"]
                 /\ UNCHANGED lock
            ELSE /\ \E e \in (IF threads[t].job = "write_entries_par"
                                THEN threads[t].left ELSE { 0 }) :
                      threads' = [threads EXCEPT ![t].pc = "locked", ![t].cur = e,
                                                 ![t].locks = @ + 1]
                 /\ lock' = [lock EXCEPT !.holder = t]
  /\ UNCHANGED << writer, fetched, cfgVars, srcVars, sinkVars, buf, i, bundleVars, log, pc, result >>

\* to_writer / to_writer_pretty of the next row into the shared BufWriter:
\* writes that fit the buffer stay in it, nothing is written to the file
\* and no write fails
FileWriteValue ==
  /\ cmd = "sink" /\ sinkKind = "File"
  /\ \E t \in DOMAIN threads :
       /\ threads[t].pc = "locked"
       /\ threads[t].job \in {"append", "write_entries", "write_entries_par"}
       /\ RowOf(threads[t]).t # "failing"
       /\ ~MustFlush(threads[t])
       /\ writer' = [writer EXCEPT !.held = @ \o Concat(Pending(threads[t]))]
       /\ log' = Append(log, [op |-> "row", t |-> t, pretty |-> threads[t].pretty,
                               value |-> RowOf(threads[t])])
       /\ threads' = [threads EXCEPT ![t].pc = "row", ![t].k = 0]
  /\ UNCHANGED << lock, fetched, cfgVars, srcVars, sinkVars, buf, i, bundleVars, pc, result >>

\* to_writer / to_writer_pretty of a value whose Serialize fails: what the
\* serializer wrote before is in the BufWriter, `?` returns the Err and
\* drops the guard
FileSerializeFails ==
  /\ cmd = "sink" /\ sinkKind = "File"
  /\ \E t \in DOMAIN threads :
       /\ threads[t].pc = "locked" /\ threads[t].job = "append"
       /\ RowOf(threads[t]).t = "failing"
       /\ ~MustFlush(threads[t])
       /\ writer' = [writer EXCEPT !.held = @ \o Concat(Pending(threads[t]))]
       /\ threads' = [threads EXCEPT ![t] = AfterAppend(@, FALSE)]
       /\ lock' = release(lock, t)
  /\ UNCHANGED << fetched, cfgVars, srcVars, sinkVars, buf, i, bundleVars, log, pc, result >>

\* writeln!; FileOutput::write_entries goes on to its next entry under the
\* same guard; append drops the guard and returns Ok, to its caller or to
\* the worker of Output::write_entries
FileWriteNewline ==
  /\ cmd = "sink" /\ sinkKind = "File"
  /\ \E t \in DOMAIN threads :
       /\ threads[t].pc = "row"
       /\ ~MustFlush(threads[t])
       /\ writer' = [writer EXCEPT !.held = @ \o << NL >>]
       /\ IF threads[t].job = "write_entries" /\ threads[t].n + 1 < Len(threads[t].rows)
            THEN /\ threads' = [threads EXCEPT ![t].pc = "locked", ![t].n = @ + 1]
                 /\ UNCHANGED lock
            ELSE /\ threads' = [threads EXCEPT ![t] = AfterAppend(@, TRUE)]
                 /\ lock' = release(lock, t)
  /\ UNCHANGED << fetched, cfgVars, srcVars, sinkVars, buf, i, bundleVars, log, pc, result >>

\* BufWriter::flush_buf before a write that does not fit: the writes that
\* fitted and all the buffer held go to the file through the writer's
\* handle, and the call goes on
FileFlush ==
  /\ cmd = "sink" /\ sinkKind = "File"
  /\ \E t \in DOMAIN threads :
       /\ threads[t].pc \in {"locked", "row"}
       /\ threads[t].job \in {"append", "write_entries", "write_entries_par"}
       /\ MustFlush(threads[t])
       /\ LET ps == Pending(threads[t])
              j == FitCount(ps, BufSize - Len(writer.held))
              all == writer.held \o Concat(SubSeq(ps, 1, j))
          IN /\ sinkText' = WriteAtHandle(all)
             /\ writer' = [writer EXCEPT !.held = <<>>, !.pos = @ + Len(all)]
             /\ threads' = [threads EXCEPT ![t].k = @ + j]
  /\ UNCHANGED << lock, fetched, cfgVars, srcVars, sinkDir, buf, i, bundleVars, log, pc, result >>

\* ... or a write of flush_buf fails (an I/O error) after part of the
\* buffer: the rest stays in the buffer, to_writer(..)? or writeln!(..)?
\* returns the Err and drops the guard
FileFlushFails ==
  /\ cmd = "sink" /\ sinkKind = "File"
  /\ \E t \in DOMAIN threads :
       /\ threads[t].pc \in {"locked", "row"}
       /\ threads[t].job \in {"append", "write_entries", "write_entries_par"}
       /\ MustFlush(threads[t])
       /\ LET ps == Pending(threads[t])
              j == FitCount(ps, BufSize - Len(writer.held))
              all == writer.held \o Concat(SubSeq(ps, 1, j))
          IN \E done \in Cuts(Len(all)) \ { Len(all) } :
               /\ sinkText' = WriteAtHandle(SubSeq(all, 1, done))
               /\ writer' = [writer EXCEPT !.held = SubSeq(all, done + 1, Len(all)),
                                            !.pos = @ + done]
       /\ threads' = [threads EXCEPT ![t] = AfterAppend(@, FALSE)]
       /\ lock' = release(lock, t)
  /\ UNCHANGED << fetched, cfgVars, srcVars, sinkDir, buf, i, bundleVars, log, pc, result >>

\* FileOutput::write: the path is opened again with truncate(true), without
\* the Mutex ...
FileWriteOpen ==
  /\ cmd = "sink" /\ sinkKind = "File"
  /\ \E t \in DOMAIN threads :
       /\ threads[t].pc = "call" /\ threads[t].job = "write"
       /\ sinkText' = <<>>
       /\ threads' = [threads EXCEPT ![t].pc = "opened"]
  /\ UNCHANGED << lock, writer, fetched, cfgVars, srcVars, sinkDir, buf, i, bundleVars, log, pc, result >>

\* ... and write_all puts the value, without a newline, at the start of the
\* file
FileWriteAll ==
  /\ cmd = "sink" /\ sinkKind = "File"
  /\ \E t \in DOMAIN threads :
       /\ threads[t].pc = "opened" /\ threads[t].job = "write"
       /\ sinkText' = OverlayAt(sinkText, 0, Serialize(threads[t].rows[1], threads[t].pretty))
       /\ threads' = [threads EXCEPT ![t].pc = "returned", ![t].n = 1, ![t].result = "Ok"]
  /\ UNCHANGED << lock, writer, fetched, cfgVars, srcVars, sinkDir, buf, i, bundleVars, log, pc, result >>

\* the last clone is dropped: BufWriter's drop flushes the buffer through the
\* writer's handle (for a FileOutput at the start of the file when nothing
\* was flushed before, for an Output::File after what the file holds) and
\* ignores a failure of the flush, which leaves only the bytes written
\* before it
FileDrop ==
  /\ cmd = "sink" /\ sinkKind = "File" /\ writer.open
  /\ \A t \in DOMAIN threads : threads[t].pc \in {"returned", "panicked"}
  /\ \E done \in Cuts(Len(writer.held)) :
       /\ sinkText' = WriteAtHandle(SubSeq(writer.held, 1, done))
       /\ writer' = [writer EXCEPT !.held = <<>>, !.open = FALSE,
                                    !.lost = Len(writer.held) - done, !.pos = @ + done]
  /\ UNCHANGED << threads, lock, fetched, cfgVars, srcVars, sinkDir, buf, i, bundleVars, log, pc, result >>

\* StreamOutput::append / write / write_entries: to_writer(stdout(), ..)
\* hands the value to the stream in several writes, each of which locks the
\* stream for itself
StreamWriteValue ==
  /\ cmd = "sink" /\ sinkKind = "Stdout"
  /\ \E t \in DOMAIN threads :
       /\ threads[t].pc \in {"call", "value"}
       /\ threads[t].job \in {"append", "write_entries", "write"}
       /\ LET row == threads[t].rows[threads[t].n + 1]
              ps == Pieces(row, threads[t].pretty, 0)
              last == threads[t].k + 1 = Len(ps)
          IN /\ sinkText' = sinkText \o ps[threads[t].k + 1]
             /\ log' = IF threads[t].k = 0
                         THEN Append(log, [op |-> "row", t |-> t, pretty |-> threads[t].pretty,
                                           value |-> row])
                         ELSE log
             /\ threads' =
                  IF ~last THEN [threads EXCEPT ![t].pc = "value", ![t].k = @ + 1]
                  ELSE IF threads[t].job = "write"
                    THEN [threads EXCEPT ![t].pc = "returned", ![t].k = 0, ![t].n = @ + 1,
                                         ![t].result = "Ok"]
                    ELSE [threads EXCEPT ![t].pc = "row", ![t].k = 0]
  /\ UNCHANGED << lock, writer, fetched, cfgVars, srcVars, sinkDir, buf, i, bundleVars, pc, result >>

\* println!()
StreamWriteNewline ==
  /\ cmd = "sink" /\ sinkKind = "Stdout"
  /\ \E t \in DOMAIN threads :
       /\ threads[t].pc = "row"
       /\ sinkText' = sinkText \o << NL >>
       /\ threads' = IF threads[t].n + 1 < Len(threads[t].rows)
                       THEN [threads EXCEPT ![t].pc = "call", ![t].n = @ + 1]
                       ELSE [threads EXCEPT ![t].pc = "returned", ![t].n = @ + 1,
                                            ![t].result = "Ok"]
  /\ UNCHANGED << lock, writer, fetched, cfgVars, srcVars, sinkDir, buf, i, bundleVars, log, pc, result >>

\* DirectoryOutput::append: Err("Cannot append to a directory output")
DirectoryAppend ==
  /\ cmd = "sink" /\ sinkKind = "Directory"
  /\ \E t \in DOMAIN threads :
       /\ threads[t].pc = "call" /\ threads[t].job = "append"
       /\ LET w == append(sinkKind, pretty, sinkText, threads[t].rows[1]) IN
          /\ sinkText' = w.text
          /\ threads' = [threads EXCEPT ![t].pc = "returned",
                                         ![t].result = IF w.ok THEN "Ok" ELSE "Err"]
  /\ UNCHANGED << lock, writer, fetched, cfgVars, srcVars, sinkDir, buf, i, bundleVars, log, pc, result >>

\* another holder of the shared Mutex takes it (lock().unwrap(): Mutex::lock
\* returns the PoisonError of a poisoned Mutex at once and the holder
\* panics) ...
HolderLock ==
  /\ cmd \in {"sink", "source"}
  /\ \E t \in DOMAIN threads :
       /\ threads[t].pc = "call" /\ threads[t].job = "hold"
       /\ may_lock(lock)
       /\ IF lock.poisoned
            THEN /\ threads' = [threads EXCEPT ![t].pc = "panicked", ![t].result = "panic"]
                 /\ UNCHANGED lock
            ELSE /\ threads' = [threads EXCEPT ![t].pc = "locked"]
                 /\ lock' = [lock EXCEPT !.holder = t]
  /\ UNCHANGED << writer, fetched, cfgVars, srcVars, sinkVars, buf, i, bundleVars, log, pc, result >>

\* ... and panics while holding it: the guard is dropped during unwinding and
\* the Mutex is poisoned
HolderPanic ==
  /\ cmd \in {"sink", "source"}
  /\ \E t \in DOMAIN threads :
       /\ threads[t].pc = "locked" /\ threads[t].job = "hold"
       /\ threads' = [threads EXCEPT ![t].pc = "panicked", ![t].result = "panic"]
       /\ lock' = [holder |-> IF lock.holder = t THEN 0 ELSE lock.holder, poisoned |-> TRUE]
  /\ UNCHANGED << writer, fetched, cfgVars, srcVars, sinkVars, buf, i, bundleVars, log, pc, result >>

\* the thread sets of a File sink: clones of one FileOutput ...
FileThreadSets(callers, p) ==
  { ts \in UNION { WithSets(cs, p) : cs \in ThreadSets(callers) } :
      \A t \in DOMAIN ts : ts[t].job = "hold" => ~ts[t].sets }

\* ... or of one Output::File, one or two at a time
OutputThreadSets(callers, p) == { ts \in FileThreadSets(callers, p) : Len(ts) <= 2 }

\* sinks as they are made.  FileOutput::new empties the file at its path;
\* Output::from_str opens it for appending, with what it holds (writer.base:
\* nothing, or a row of an earlier run)
SinksOf(fileCallers, outputCallers, helds) ==
  /\ cmd = "sink" /\ pc = "start" /\ result = "none"
  /\ srcKind = "File" /\ srcDir = NoFiles /\ srcText = <<>> /\ srcPos = 1
  /\ sinkKind \in {"File", "Stdout", "Directory"}
  /\ pretty \in (IF sinkKind = "File" THEN BOOLEAN ELSE { FALSE })
  /\ writer \in { [NoWriter EXCEPT !.open = sinkKind = "File", !.held = h,
                                    !.append = a, !.base = b] :
                    h \in (IF sinkKind = "File" THEN helds ELSE { <<>> }),
                    a \in (IF sinkKind = "File" THEN BOOLEAN ELSE { FALSE }),
                    b \in (IF sinkKind = "File" THEN { <<>>, OldText } ELSE { <<>> }) }
  /\ writer.base # <<>> => writer.append
  /\ sinkDirOk = TRUE /\ sinkDir = NoFiles /\ sinkText = writer.base
  /\ namePaths = <<>> /\ typePath = None /\ fields = <<>> /\ filter = None
  /\ buf = <<>> /\ i = 0 /\ todo = {} /\ entries = <<>> /\ chained = FALSE
  /\ log = <<>>
  /\ threads \in (IF sinkKind = "File"
                    THEN IF writer.append THEN OutputThreadSets(outputCallers, pretty)
                         ELSE FileThreadSets(fileCallers, pretty)
                  ELSE IF sinkKind = "Stdout" THEN StreamThreadSets
                  ELSE ThreadSets({ c \in SinkCallers : c.job = "append" /\ Len(c.rows) = 1 }))
  /\ lock = Unlocked
  /\ fetched = 0

InitSinks == SinksOf(SinkCallers, OutputCallers, { <<>> })

NextSinks ==
  \/ SetPretty
  \/ FileLock \/ FileWriteValue \/ FileWriteNewline
  \/ FileWriteOpen \/ FileWriteAll \/ FileDrop
  \/ StreamWriteValue \/ StreamWriteNewline
  \/ DirectoryAppend
  \/ HolderLock \/ HolderPanic

SpecSinks == InitSinks /\ [][NextSinks]_vars

(***************************************************************************)
(* Concurrent callers of one source: Input::read_line and get_object, and  *)
(* InputStdin's io::Read, through clones that share the reader and its     *)
(* Mutex                                                                   *)
(***************************************************************************)
\* what the shared source holds: whole lines, the last one with or without
\* its newline
SourceLines == { Line(JNum(1)), Line(JObj(<<>>)) }
SourceFullTexts == { Concat(ls) : ls \in SeqsUpTo(SourceLines, MaxLines) }
SourceTexts ==
  SourceFullTexts \cup { SubSeq(txt, 1, Len(txt) - 1) : txt \in SourceFullTexts \ { <<>> } }

\* a caller: `calls` read_line calls in a row on its own buffer (which may
\* hold text already), one get_object call, one read into a slice of `len`
\* bytes, or another holder of the Mutex
Reader(job, calls, b) ==
  [job |-> job, calls |-> calls, n |-> 0, pc |-> "call", result |-> "none",
   buf0 |-> b, buf |-> b, got |-> <<>>, len |-> 0, locks |-> 0]
SourceCallers ==
  { Reader("read_line", 1, <<>>), Reader("read_line", 2, <<>>), Reader("read_line", 1, <<"x">>),
    Reader("get_object", 1, <<>>), Reader("hold", 0, <<>>),
    [Reader("read", 1, <<>>) EXCEPT !.len = 1] }

\* read_line of a File or Stdin source and read of InputStdin:
\* reader.lock().map_err(..)?: a poisoned Mutex is returned as an Err
SourceLock ==
  /\ cmd = "source" /\ srcKind \in {"File", "Stdin"}
  /\ \E t \in DOMAIN threads :
       /\ threads[t].pc = "call" /\ threads[t].job \in {"read_line", "read"}
       /\ may_lock(lock)
       /\ IF lock.poisoned
            THEN /\ threads' = [threads EXCEPT ![t].pc = "returned", ![t].result = "Err"]
                 /\ UNCHANGED lock
            ELSE /\ threads' = [threads EXCEPT ![t].pc = "locked", ![t].got = <<>>,
                                               ![t].locks = @ + 1]
                 /\ lock' = [lock EXCEPT !.holder = t]
  /\ UNCHANGED << writer, fetched, cfgVars, srcVars, sinkVars, buf, i, bundleVars, log, pc, result >>

\* BufReader::fill_buf: how far the shared reader's buffer reaches afterwards.
\* A buffer that still holds bytes is left as it is; an empty one is filled
\* with the rest of a file, or with a part of what a pipe or terminal has
\* left: one byte, the rest of the line, or all of it (any other part is a
\* number of one-byte fills)
Fetches(kind, text, pos, f) ==
  IF f >= pos \/ pos > Len(text) THEN { f }
  ELSE IF kind = "File" THEN { Len(text) }
  ELSE { pos, ChunkEnd(text, pos), Len(text) }

Min(a, b) == IF a <= b THEN a ELSE b

\* BufRead::read_line under the guard: one turn of read_until, which takes
\* what the reader's buffer holds, up to the newline if there is one.  The
\* call returns in the turn that takes the newline, or in a turn whose fill
\* finds the input at its end (a read of no bytes)
SourceFill ==
  /\ cmd = "source" /\ srcKind \in {"File", "Stdin"}
  /\ \E t \in DOMAIN threads :
       /\ threads[t].pc = "locked" /\ threads[t].job = "read_line"
       /\ \E f \in Fetches(srcKind, srcText, srcPos, fetched) :
            LET e == Min(ChunkEnd(srcText, srcPos), f)
                taken == SubSeq(srcText, srcPos, e)
                line == threads[t].got \o taken
            IN /\ fetched' = f
               /\ srcPos' = IF e >= srcPos THEN e + 1 ELSE srcPos
               /\ IF srcPos > Len(srcText) \/ srcText[e] = NL
                    THEN /\ threads' = [threads EXCEPT
                                          ![t].buf = @ \o taken, ![t].got = line, ![t].n = @ + 1,
                                          ![t].pc = IF threads[t].n + 1 < threads[t].calls
                                                      THEN "call" ELSE "returned",
                                          ![t].locks = IF threads[t].n + 1 < threads[t].calls
                                                         THEN 0 ELSE @,
                                          ![t].result = IF threads[t].n + 1 < threads[t].calls
                                                          THEN @ ELSE "Ok"]
                         /\ lock' = release(lock, t)
                         /\ log' = Append(log, [op |-> "line", t |-> t, line |-> line])
                    ELSE /\ threads' = [threads EXCEPT ![t].buf = @ \o taken, ![t].got = line]
                         /\ UNCHANGED << lock, log >>
  /\ UNCHANGED << writer, cfgVars, srcKind, srcText, srcDir, sinkVars, buf, i, bundleVars, pc, result >>

\* <InputStdin as io::Read>::read under the guard: BufReader::read gives as
\* many bytes of its buffer as the slice takes, none at the end of the input
SourceRead ==
  /\ cmd = "source" /\ srcKind = "Stdin"
  /\ \E t \in DOMAIN threads :
       /\ threads[t].pc = "locked" /\ threads[t].job = "read"
       /\ \E f \in Fetches(srcKind, srcText, srcPos, fetched) :
            LET e == Min(srcPos + threads[t].len - 1, f)
                taken == SubSeq(srcText, srcPos, e)
            IN /\ fetched' = f
               /\ srcPos' = IF e >= srcPos THEN e + 1 ELSE srcPos
               /\ threads' = [threads EXCEPT ![t].buf = @ \o taken, ![t].got = taken,
                                              ![t].n = 1, ![t].pc = "returned",
                                              ![t].result = "Ok"]
               /\ log' = Append(log, [op |-> "bytes", t |-> t, bytes |-> taken])
       /\ lock' = release(lock, t)
  /\ UNCHANGED << writer, cfgVars, srcKind, srcText, srcDir, sinkVars, buf, i, bundleVars, pc, result >>

\* a read of the shared reader fails (an I/O error), at the first turn,
\* after part of the line was taken or where the input is at its end; the
\* reader reads its source only when its buffer holds no byte.
\* map_err(..)? returns the Err and drops the guard; the bytes taken before
\* stay in the caller's buffer
SourceReadFails ==
  /\ cmd = "source" /\ srcKind \in {"File", "Stdin"}
  /\ fetched < srcPos
  /\ \E t \in DOMAIN threads :
       /\ threads[t].pc = "locked" /\ threads[t].job \in {"read_line", "read"}
       /\ threads' = [threads EXCEPT ![t].pc = "returned", ![t].result = "Err"]
       /\ lock' = release(lock, t)
  /\ UNCHANGED << writer, fetched, cfgVars, srcVars, sinkVars, buf, i, bundleVars, log, pc, result >>

\* read_line of a Directory source: Err("Cannot read_line from directory ..")
DirectoryReadLine ==
  /\ cmd = "source" /\ srcKind = "Directory"
  /\ \E t \in DOMAIN threads :
       /\ threads[t].pc = "call" /\ threads[t].job = "read_line"
       /\ LET r == read_line(srcKind, srcText, srcPos, threads[t].buf) IN
          /\ srcPos' = r.pos
          /\ threads' = [threads EXCEPT ![t].buf = r.buf, ![t].pc = "returned",
                                         ![t].result = IF r.ok THEN "Ok" ELSE "Err"]
  /\ UNCHANGED << lock, writer, fetched, cfgVars, srcKind, srcText, srcDir, sinkVars, buf, i, bundleVars, log, pc, result >>

\* get_object.  A File is opened anew and read whole, a Directory is an
\* error; neither uses the shared reader.  Stdin: stdin().read_to_string
\* takes, without the Mutex, all that the shared reader has not fetched yet
GetObject ==
  /\ cmd = "source"
  /\ \E t \in DOMAIN threads :
       /\ threads[t].pc = "call" /\ threads[t].job = "get_object"
       /\ LET rest == IF srcKind = "Stdin"
                        THEN SubSeq(srcText, fetched + 1, Len(srcText)) ELSE srcText
              r == get_object(srcKind, rest)
          IN /\ threads' = [threads EXCEPT ![t].pc = "returned",
                                            ![t].result = IF r.ok THEN "Ok" ELSE "Err"]
             /\ log' = Append(log, [op |-> "object", t |-> t, ok |-> r.ok])
       /\ srcText' = IF srcKind = "Stdin" THEN SubSeq(srcText, 1, fetched) ELSE srcText
  /\ UNCHANGED << lock, writer, fetched, cfgVars, srcKind, srcPos, srcDir, sinkVars, buf, i, bundleVars, pc, result >>

InitSources ==
  /\ cmd = "source" /\ pc = "start" /\ result = "none"
  /\ srcKind \in {"File", "Stdin", "Directory"}
  /\ srcDir = NoFiles /\ srcPos = 1
  /\ srcText \in (IF srcKind = "Directory" THEN { <<>> } ELSE SourceTexts)
  /\ sinkKind = "Stdout" /\ pretty = FALSE
  /\ sinkDirOk = TRUE /\ sinkDir = NoFiles /\ sinkText = <<>>
  /\ namePaths = <<>> /\ typePath = None /\ fields = <<>> /\ filter = None
  /\ buf = <<>> /\ i = 0 /\ todo = {} /\ entries = <<>> /\ chained = FALSE
  /\ log = <<>>
  /\ threads \in ThreadSets(IF srcKind = "File" THEN { c \in SourceCallers : c.job # "read" }
                             ELSE IF srcKind = "Stdin" THEN SourceCallers
                             ELSE { c \in SourceCallers : c.job \notin {"hold", "read"} })
  /\ lock = Unlocked
  /\ writer = NoWriter /\ fetched = 0

NextSources ==
  \/ SourceLock \/ SourceFill \/ SourceRead \/ SourceReadFails
  \/ DirectoryReadLine \/ GetObject
  \/ HolderLock \/ HolderPanic

SpecSources == InitSources /\ [][NextSources]_vars

\* concurrent read_line, append and write_entries calls and no other holder
\* of the Mutex, up to the return of the last call; every call that can take
\* a step eventually takes one.  The sinks write compact rows; the buffer of
\* a File sink is empty or, for one or two callers, nearly full
\* callers of a FileOutput, one of them with a value whose Serialize fails
\* at its first key, after the opening brace, and callers of an Output::File
CallCallers ==
  { c \in SinkCallers : c.job \in {"append", "write_entries"} /\ c.rows # << RowA >> }
    \cup { Caller("append", << Failing(RowA, 1) >>) }
CallOutputCallers ==
  { c \in OutputCallers : c.job = "write_entries_par" \/ c.rows = << JNum(1) >> }

InitCalls ==
  /\ SinksOf(CallCallers, CallOutputCallers, { <<>>, EarlierRows }) \/ InitSources
  /\ \A t \in DOMAIN threads :
       /\ threads[t].job \in {"read_line", "append", "write_entries", "write_entries_par"}
       /\ cmd = "sink" => ~threads[t].sets
  /\ cmd = "sink" => ~pretty
  /\ writer.held # <<>> =>
       /\ Len(threads) <= 2
       /\ \A t \in DOMAIN threads : threads[t].job # "write_entries"

NextCalls ==
  \/ FileLock \/ FileWriteValue \/ FileWriteNewline
  \/ FileSerializeFails \/ FileFlush \/ FileFlushFails
  \/ StreamWriteValue \/ StreamWriteNewline
  \/ DirectoryAppend
  \/ SourceLock \/ SourceFill \/ SourceReadFails
  \/ DirectoryReadLine

SpecCalls == InitCalls /\ [][NextCalls]_vars /\ WF_vars(NextCalls)

\* the sinks and the sources together
InitShared == InitSinks \/ InitSources
NextShared == NextSinks \/ NextSources
SpecShared == InitShared /\ [][NextShared]_vars

(***************************************************************************)
(* The field codec on its own: JsonField::escape, then JsonField::unescape *)
(***************************************************************************)
\* the most elements of an array the codec is given
MaxElems == 2

\* strings with and without a quote or a backslash inside
\* and strings that hold JSON text: 1, "a\"b" and, with its quotes escaped,
\* \"a\"
CodecStrings ==
  { <<"a">>, <<>>, << "a", QUOTE, "b" >>, << "a", BSL >>, << BSL, "a" >>,
    <<"1">>, << QUOTE, "a", BSL, QUOTE, "b", QUOTE >>, << BSL, QUOTE, "a", BSL, QUOTE >> }
CodecAtoms == { JNull, JBool(TRUE), JNum(1) } \cup { JStr(str) : str \in CodecStrings }
CodecValues ==
  CodecAtoms
    \cup { JArr(xs) : xs \in SeqsUpTo(CodecAtoms, MaxElems) }
    \cup { JObj(<< << Key("k"), a >> >>) : a \in CodecAtoms }
    \cup { JObj(<< << Key("k"), JArr(<< a >>) >> >>) : a \in CodecAtoms }
    \cup { JObj(<< << << "k", QUOTE >>, JNum(1) >> >>), JObj(<<>>) }

\* JsonField::from(value).escape()
EscapeValue ==
  /\ cmd = "codec" /\ pc = "start"
  /\ log' = Append(log, [op |-> "escaped", value |-> escape(log[1].value)])
  /\ pc' = "escaped"
  /\ UNCHANGED << concVars, cfgVars, srcVars, sinkVars, buf, i, bundleVars, result >>

\* JsonField::from(value).unescape() of what escape returned
UnescapeValue ==
  /\ cmd = "codec" /\ pc = "escaped"
  /\ log' = Append(log, [op |-> "unescaped", value |-> unescape(log[2].value)])
  /\ pc' = "done"
  /\ UNCHANGED << concVars, cfgVars, srcVars, sinkVars, buf, i, bundleVars, result >>

\* JsonField::from(..).escape() of what escape returned
EscapeAgain ==
  /\ cmd = "codec" /\ pc = "escaped"
  /\ log' = Append(log, [op |-> "escaped_again", value |-> escape(log[2].value)])
  /\ pc' = "escaped_twice"
  /\ UNCHANGED << concVars, cfgVars, srcVars, sinkVars, buf, i, bundleVars, result >>

\* JsonField::from(value).unescape() of the value itself
UnescapeDirect ==
  /\ cmd = "codec" /\ pc = "start"
  /\ log' = Append(log, [op |-> "unescaped", value |-> unescape(log[1].value)])
  /\ pc' = "unescaped"
  /\ UNCHANGED << concVars, cfgVars, srcVars, sinkVars, buf, i, bundleVars, result >>

InitCodec ==
  /\ cmd = "codec" /\ pc = "start" /\ result = "none"
  /\ srcKind = "File" /\ srcDir = NoFiles /\ srcText = <<>> /\ srcPos = 1
  /\ sinkKind = "Stdout" /\ pretty = FALSE
  /\ sinkDirOk = TRUE /\ sinkDir = NoFiles /\ sinkText = <<>>
  /\ namePaths = <<>> /\ typePath = None /\ fields = <<>> /\ filter = None
  /\ buf = <<>> /\ i = 0 /\ todo = {} /\ entries = <<>> /\ chained = FALSE
  /\ \E v \in CodecValues : log = << [op |-> "value", value |-> v] >>
  /\ threads = NoThreads /\ lock = Unlocked
  /\ writer = NoWriter /\ fetched = 0

NextCodec == EscapeValue \/ UnescapeValue \/ EscapeAgain \/ UnescapeDirect

SpecCodec == InitCodec /\ [][NextCodec]_vars

(***************************************************************************)
(* bundle with --escape paths and unbundle with --unescape paths           *)
(***************************************************************************)
InitFields == (InitUnbundle \/ InitBundle) /\ fields # <<>>

NextFields ==
  \/ ReadLine \/ ProcessLine
  \/ BundleStart \/ BundleScan \/ BundleScanEnd \/ BundleEmit \/ BundleEnd

SpecFields == InitFields /\ [][NextFields]_vars

(***************************************************************************)
(* Construction of a source and of a sink from an argument: FromStr for    *)
(* Input and for Output                                                    *)
(***************************************************************************)
\* the arguments: the dash, names with and without an extension, a name
\* below a directory whose name has a dot, a name that is only an extension
ArgStrings ==
  { <<"-">>, <<"o">>, << "o", ".", "j" >>, << "a", ".", "b", "/", "o" >>,
    << "d", "/", "o", ".", "j" >>, << ".", "j" >>, << "o", "." >> }

\* what the file system holds at the path, and whether opening (or creating)
\* a file there is permitted
PathKinds == { "absent", "file", "dir" }

\* Path::extension of a path: that of its last component
path_extension(path) == extension(Split(path, "/")[Len(Split(path, "/"))])

\* Input::from_str: the variant, or "Err"
input_from_str(arg, kind, openOk) ==
  IF arg = <<"-">> THEN "Stdin"
  ELSE IF kind = "dir" THEN "Directory"
  ELSE IF kind = "file" /\ openOk THEN "File"
  ELSE "Err"

\* Output::from_str: the variant, or "Err"
output_from_str_by_kind(arg, kind, openOk) ==
  IF arg = <<"-">> THEN "Stdout"
  ELSE IF kind = "dir" THEN "Directory"
  ELSE IF openOk THEN "File"
  ELSE "Err"
output_from_str(arg, kind, openOk) ==
  IF arg = <<"-">> THEN "Stdout"
  ELSE IF kind = "dir" THEN "Directory"
  ELSE IF ~path_extension(arg).some THEN "Directory"
  ELSE IF openOk THEN "File"
  ELSE "Err"

\* input.parse::<Input>()
InputFromStr ==
  /\ cmd = "from_str" /\ pc = "start"
  /\ srcKind' = input_from_str(buf, log[1].kind, log[1].openOk)
  /\ pc' = "input"
  /\ UNCHANGED << concVars, cmd, sinkKind, pretty, sinkDirOk, namePaths, typePath, fields, filter,
                  srcText, srcPos, srcDir, sinkVars, buf, i, bundleVars, log, result >>

\* output.parse::<Output>(): OpenOptions .create(true).append(true) makes
\* the file when it is absent and keeps what an existing file holds
OutputFromStr ==
  /\ cmd = "from_str" /\ pc = "start"
  /\ LET variant == output_from_str(buf, log[1].kind, log[1].openOk) IN
     /\ sinkKind' = variant
     /\ sinkDir' = IF variant = "File" /\ log[1].kind = "absent"
                     THEN (buf :> <<>>) @@ sinkDir ELSE sinkDir
  /\ pc' = "output"
  /\ UNCHANGED << concVars, cmd, pretty, sinkDirOk, namePaths, typePath, fields, filter,
                  srcVars, sinkText, buf, i, bundleVars, log, result >>

InitFromStr ==
  /\ cmd = "from_str" /\ pc = "start" /\ result = "none"
  /\ buf \in ArgStrings
  /\ \E kind \in PathKinds, openOk \in BOOLEAN :
       /\ log = << [op |-> "path", kind |-> kind, openOk |-> openOk] >>
       /\ sinkDir = IF kind = "file" THEN (buf :> << "1", NL >>) ELSE NoFiles
  /\ srcKind = "none" /\ sinkKind = "none"
  /\ srcDir = NoFiles /\ srcText = <<>> /\ srcPos = 1
  /\ pretty = FALSE /\ sinkDirOk = TRUE /\ sinkText = <<>>
  /\ namePaths = <<>> /\ typePath = None /\ fields = <<>> /\ filter = None
  /\ i = 0 /\ todo = {} /\ entries = <<>> /\ chained = FALSE
  /\ threads = NoThreads /\ lock = Unlocked
  /\ writer = NoWriter /\ fetched = 0

NextFromStr == InputFromStr \/ OutputFromStr

SpecFromStr == InitFromStr /\ [][NextFromStr]_vars

(***************************************************************************)
(* Vocabulary of the properties                                            *)
(***************************************************************************)
\* the lines of a text, as successive read_line calls deliver them
RECURSIVE LinesFrom(_, _)
LinesFrom(text, p) ==
  IF p > Len(text) THEN <<>>
  ELSE << SubSeq(text, p, ChunkEnd(text, p)) >> \o LinesFrom(text, ChunkEnd(text, p) + 1)

LinesOf(text) == LinesFrom(text, 1)

AllLinesParse(text) == \A k \in 1..Len(LinesOf(text)) : FromStr(LinesOf(text)[k]).ok

Writes == SelectSeq(log, LAMBDA e : e.op = "write")
Running == srcKind # "Directory" /\ sinkDirOk

\* what a sink holds after the given write events, in order
RECURSIVE RowsText(_, _)
RowsText(ws, p) ==
  IF ws = <<>> THEN <<>>
  ELSE Serialize(json_entry(Head(ws).name, Head(ws).value), p) \o << NL >> \o RowsText(Tail(ws), p)

(***************************************************************************)
(* C1: when unbundle runs with no name paths (and no type suffix) on an    *)
(* input whose lines all parse, the row of zero-based line k is written    *)
(* under the name object-<k, six digits>, and the run is read 0, write 0,  *)
(* read 1, write 1, ...: the write of row k is done before line k+1 is     *)
(* read, and each write has reached the sink.                              *)
(***************************************************************************)
\* "object-" and the six decimal digits of k
Pow10(e) == IF e = 0 THEN 1 ELSE IF e = 1 THEN 10 ELSE IF e = 2 THEN 100
            ELSE IF e = 3 THEN 1000 ELSE IF e = 4 THEN 10000 ELSE 100000
ObjectName(k) ==
  <<"o", "b", "j", "e", "c", "t", "-">>
    \o [d \in 1..6 |-> Digits[((k \div Pow10(6 - d)) % 10) + 1]]

C1_Case ==
  /\ cmd = "unbundle" /\ Running
  /\ namePaths = <<>> /\ typePath = None
  /\ AllLinesParse(srcText)

C1_DefaultNamesInLineOrder ==
  C1_Case =>
    LET lines == LinesOf(srcText) IN
    /\ \A k \in 1..Len(log) :
         IF k % 2 = 1
           THEN log[k] = [op |-> "read", i |-> (k - 1) \div 2, ok |-> TRUE]
         ELSE IF k \div 2 <= Len(lines)
           THEN log[k] = [op |-> "write", i |-> (k \div 2) - 1, ok |-> TRUE,
                          name |-> ObjectName((k \div 2) - 1),
                          value |-> unescape_fields(FromStr(lines[k \div 2]).val, fields)]
         ELSE log[k] = [op |-> "eof", i |-> Len(lines)]
    /\ sinkKind = "Directory" =>
         \A k \in 1..Len(Writes) :
           /\ (Writes[k].name \o JsonExt) \in DOMAIN sinkDir
           /\ sinkDir[Writes[k].name \o JsonExt] = Serialize(Writes[k].value, pretty)
    /\ sinkKind # "Directory" => sinkText = RowsText(Writes, pretty)
    /\ pc = "done" => result = "Ok" /\ Len(Writes) = Len(lines)

C1_Witness ==
  /\ C1_Case /\ pc = "done" /\ Len(Writes) = 2 /\ sinkKind = "Directory"
  /\ DOMAIN sinkDir = { ObjectName(0) \o JsonExt, ObjectName(1) \o JsonExt }

(***************************************************************************)
(* C2: for every row unbundle writes with a non-empty name-path list, the  *)
(* name is the string at the first path, in list order, that resolves to   *)
(* a string; absent and non-string paths are passed over, and with no      *)
(* string at any path the name is the default object-NNNNNN.               *)
(* (Stated without a type suffix.)  The code takes the first path that     *)
(* resolves at all and names the row "" when its value is no string.       *)
(***************************************************************************)
RECURSIVE first_string_at(_, _, _)
first_string_at(json, paths, n) ==
  IF paths = <<>> THEN ObjectName(n)
  ELSE LET hit == pointer(json, dots_to_slashes(Head(paths))) IN
       IF hit.some /\ hit.v.t = "str" THEN hit.v.s
       ELSE first_string_at(json, Tail(paths), n)

C2_NameIsFirstStringPath ==
  (cmd = "unbundle" /\ namePaths # <<>> /\ typePath = None) =>
    \A k \in 1..Len(Writes) :
      Writes[k].name = first_string_at(Writes[k].value, namePaths, Writes[k].i)

(***************************************************************************)
(* C3: the derived name gets the suffix ".<type>" exactly when the type    *)
(* path resolves to a string in the row; with no type path, or one that    *)
(* does not resolve or resolves to a non-string, the name is unmodified.   *)
(* The code appends "." and nothing when the value is no string.           *)
(***************************************************************************)
type_suffix_if_string(json, type) ==
  IF type.some
    THEN LET ty == pointer(json, dots_to_slashes(type.v)) IN
         IF ty.some /\ ty.v.t = "str" THEN <<".">> \o ty.v.s ELSE <<>>
    ELSE <<>>

C3_TypeSuffixOnlyForStrings ==
  cmd = "unbundle" =>
    \A k \in 1..Len(Writes) :
      Writes[k].name = name_entry(Writes[k].i, Writes[k].value, namePaths, None)
                         \o type_suffix_if_string(Writes[k].value, typePath)

(***************************************************************************)
(* C4: in unbundle every line is handled by its own parse alone: a line    *)
(* that fails to parse with a syntax error is skipped (nothing written, no *)
(* failure), the next read starts from an empty buffer, and the loop ends  *)
(* with success at the first line (or the end of the input) whose parse    *)
(* fails with unexpected end of input.  The sink holds the written rows    *)
(* and nothing else.                                                       *)
(***************************************************************************)
\* the chunk the read with counter k gets
LineAt(k) == IF k < Len(LinesOf(srcText)) THEN LinesOf(srcText)[k + 1] ELSE <<>>

C4_Case == cmd = "unbundle" /\ Running

C4_SkipSyntaxErrorsStopAtEof ==
  C4_Case =>
    /\ \A j \in 1..Len(log) :
         IF j % 2 = 1 THEN log[j].op = "read" /\ log[j].i = (j - 1) \div 2
         ELSE LET k == (j \div 2) - 1
                  r == FromStr(LineAt(k))
              IN IF r.ok THEN
                   /\ log[j].op = "write" /\ log[j].i = k /\ log[j].ok
                   /\ log[j].value = unescape_fields(r.val, fields)
                 ELSE IF r.err = "eof" THEN
                   /\ log[j] = [op |-> "eof", i |-> k]
                   /\ j = Len(log) /\ pc = "done" /\ result = "Ok"
                 ELSE log[j] = [op |-> "skip", i |-> k]
    /\ pc = "read" => buf = <<>>
    /\ result # "Err"
    /\ sinkKind = "Directory" => DOMAIN sinkDir = { Writes[k].name \o JsonExt : k \in 1..Len(Writes) }
    /\ sinkKind # "Directory" => sinkText = RowsText(Writes, pretty)

C4_Witness ==
  /\ C4_Case /\ pc = "done" /\ result = "Ok" /\ Len(log) = 6
  /\ log[2].op = "skip" /\ log[4].op = "write" /\ log[6].op = "eof"

(***************************************************************************)
(* C5 as stated: one bad line never aborts the run: when unbundle has      *)
(* ended, every line of the input that is a well-formed JSON value has     *)
(* been written, whatever malformed lines (truncated and blank ones        *)
(* included) come before it.  The loop ends at a truncated or blank line   *)
(* and leaves the lines after it unwritten.                                *)
(***************************************************************************)
AllUtf8(text) == \A k \in 1..Len(text) : text[k] # BADBYTE

C5_EveryGoodLineWritten ==
  (cmd = "unbundle" /\ Running /\ AllUtf8(srcText) /\ pc = "done") =>
    \A k \in 1..Len(LinesOf(srcText)) :
      FromStr(LinesOf(srcText)[k]).ok =>
        \E j \in 1..Len(Writes) :
          /\ Writes[j].i = k - 1
          /\ Writes[j].value = unescape_fields(FromStr(LinesOf(srcText)[k]).val, fields)

(***************************************************************************)
(* C5 amended: a line with a syntax error never aborts the run: when       *)
(* unbundle has ended, every well-formed line that comes before the first  *)
(* line the loop ends at (a line that is truncated or blank, so that its   *)
(* parse fails with unexpected end of input, or a line that cannot be      *)
(* read) has been written, whatever lines with syntax errors come before   *)
(* it.                                                                     *)
(***************************************************************************)
\* the loop ends at this line
EndsLoop(line) == ~AllUtf8(line) \/ (~FromStr(line).ok /\ FromStr(line).err = "eof")

C5_Case == cmd = "unbundle" /\ Running /\ pc = "done"

C5_GoodLinesBeforeStopWritten ==
  C5_Case =>
    \A k \in 1..Len(LinesOf(srcText)) :
      (FromStr(LinesOf(srcText)[k]).ok /\ \A j \in 1..(k - 1) : ~EndsLoop(LinesOf(srcText)[j])) =>
        \E j \in 1..Len(Writes) :
          /\ Writes[j].i = k - 1
          /\ Writes[j].value = unescape_fields(FromStr(LinesOf(srcText)[k]).val, fields)

C5_Witness ==
  /\ C5_Case /\ Len(LinesOf(srcText)) = 2
  /\ ~FromStr(LinesOf(srcText)[1]).ok /\ ~EndsLoop(LinesOf(srcText)[1])
  /\ FromStr(LinesOf(srcText)[2]).ok
  /\ Len(Writes) = 1 /\ Writes[1].i = 1

(***************************************************************************)
(* C6: when read_line fails during unbundle, unbundle returns an error: it *)
(* never ends with success after a failed read.  The code leaves the loop  *)
(* on the failed read and returns Ok.                                      *)
(***************************************************************************)
C6_FailedReadIsAnError ==
  (cmd = "unbundle" /\ pc = "done" /\ \E j \in 1..Len(log) : log[j].op = "read" /\ ~log[j].ok)
    => result = "Err"

(***************************************************************************)
(* C7: bundle returns an error when the sink is a Directory or the source  *)
(* is a File or Stdin, and it does so before any file of the source is     *)
(* read and before any row is appended: no step changes the sink.          *)
(* bundle of src/ndjson.rs does; main's Commands::Bundle with              *)
(* NdjsonBundler returns the error for a Directory sink only: with a File  *)
(* or Stdin source it truncates a File sink and then panics.               *)
(***************************************************************************)
C7_Case ==
  /\ cmd \in {"bundle", "bundle_legacy"}
  /\ sinkKind = "Directory" \/ srcKind \in {"File", "Stdin"}

C7_BundleFailsFast ==
  /\ [](C7_Case =>
          /\ pc \in {"start", "done"}
          /\ pc = "done" => result = "Err"
          /\ log = <<>> /\ todo = {} /\ entries = <<>>)
  /\ [][C7_Case => (sinkText' = sinkText /\ sinkDir' = sinkDir)]_vars

(***************************************************************************)
(* C8: bundle over a directory appends exactly one row per file whose      *)
(* extension is .json (its value with escape applied at the configured     *)
(* paths); files with another extension contribute no row.                 *)
(* NdjsonBundler reads every file of the directory, whatever its name.     *)
(***************************************************************************)
Appends == SelectSeq(log, LAMBDA e : e.op = "append")
JsonFiles == { f \in DOMAIN srcDir : extension(f) = Some(<<"j", "s", "o", "n">>) }

C8_OneRowPerJsonFile ==
  (cmd = "bundle" /\ pc = "done" /\ result = "Ok") =>
    /\ Len(Appends) = Cardinality(JsonFiles)
    /\ \A f \in JsonFiles :
         \E k \in 1..Len(Appends) :
           Appends[k].value = escape_fields(FromStr(srcDir[f]).val, fields)

(***************************************************************************)
(* C9: when one file of the source directory is not JSON, reading the      *)
(* entries (and bundle built on it) skips that file and still delivers     *)
(* every other file: the operation neither fails nor panics.               *)
(* read_entries returns the parse error of the first such file, so         *)
(* get_entries panics and NdjsonBundler::bundle appends nothing;           *)
(* read_directory_to_output returns the error and leaves out the files it  *)
(* had not visited yet.                                                    *)
(***************************************************************************)
C9_Case ==
  /\ cmd \in {"bundle", "bundle_legacy"} /\ pc = "done"
  /\ srcKind = "Directory" /\ sinkKind # "Directory"

C9_BadFileIsSkipped ==
  C9_Case =>
    /\ result = "Ok"
    /\ \A f \in JsonFiles :
         FromStr(srcDir[f]).ok =>
           \E k \in 1..Len(Appends) :
             Appends[k].value = escape_fields(FromStr(srcDir[f]).val, fields)

(***************************************************************************)
(* C10: bundle then unbundle is a round trip: for a directory of N files,  *)
(* each one object with a string at the name path, the strings pairwise    *)
(* distinct, bundled with no escape paths into an NDJSON file, unbundling  *)
(* that file into an empty directory by that name path gives exactly N     *)
(* files, <name>.json for each original, holding a value equal to it.      *)
(* A row whose name holds a path separator is written to no file of the    *)
(* directory.                                                              *)
(***************************************************************************)
NameOf(text) == pointer(FromStr(text).val, dots_to_slashes(namePaths[1]))

C10_Case ==
  /\ chained /\ cmd = "unbundle" /\ fields = <<>>
  /\ namePaths = << Key("n") >> /\ typePath = None
  /\ \A f \in DOMAIN srcDir :
       /\ FromStr(srcDir[f]).ok /\ FromStr(srcDir[f]).val.t = "obj"
       /\ NameOf(srcDir[f]).some /\ NameOf(srcDir[f]).v.t = "str"
  /\ \A f, g \in DOMAIN srcDir : f # g => NameOf(srcDir[f]) # NameOf(srcDir[g])

C10_RoundTrip ==
  (C10_Case /\ pc = "done") =>
    /\ result = "Ok"
    /\ Cardinality(DOMAIN sinkDir) = Cardinality(DOMAIN srcDir)
    /\ \A f \in DOMAIN srcDir :
         LET g == NameOf(srcDir[f]).v.s \o JsonExt IN
         /\ g \in DOMAIN sinkDir
         /\ FromStr(sinkDir[g]).ok
         /\ FromStr(sinkDir[g]).val = FromStr(srcDir[f]).val

(***************************************************************************)
(* C11: directory round trip: for every set E of entries with pairwise     *)
(* distinct names, write_entries(E) on a Directory sink and then           *)
(* get_entries on the same directory gives exactly the (name, value)       *)
(* pairs of E, whatever order the workers wrote in.  An entry with an      *)
(* empty name comes back under the name ".json", and one whose name holds  *)
(* a path separator does not come back.                                    *)
(***************************************************************************)
DistinctNames(es) == \A j, k \in 1..Len(es) : j # k => es[j][1] # es[k][1]
EntriesRead == { << log[k].name, log[k].value >> : k \in { j \in 1..Len(log) : log[j].op = "entry" } }

C11_DirectoryRoundTrip ==
  (cmd = "get_entries" /\ pc = "done" /\ DistinctNames(entries)) =>
    /\ result = "Ok"
    /\ EntriesRead = { entries[k] : k \in 1..Len(entries) }

(***************************************************************************)
(* C14: write_entries on a Directory sink is best-effort per entry: when   *)
(* the directory can be created the call returns Ok, whether or not an     *)
(* entry's file could be written, and every entry whose own file can be    *)
(* opened has its file (holding its value, when no other entry has its     *)
(* name); the call fails only when the directory cannot be created, and    *)
(* then no file is written.                                                *)
(***************************************************************************)
HasSeparator(name) == \E k \in 1..Len(name) : name[k] = "/"

C14_Case == cmd = "write_entries" /\ pc = "returned"

C14_BestEffortPerEntry ==
  C14_Case =>
    IF sinkDirOk THEN
      /\ result = "Ok"
      /\ \A k \in 1..Len(entries) :
           ~HasSeparator(entries[k][1]) =>
             /\ (entries[k][1] \o JsonExt) \in DOMAIN sinkDir
             /\ DistinctNames(entries) =>
                  sinkDir[entries[k][1] \o JsonExt] = Serialize(entries[k][2], pretty)
    ELSE result = "Err" /\ sinkDir = NoFiles /\ log = <<>>

C14_Witness ==
  /\ C14_Case /\ result = "Ok" /\ Len(entries) = 2
  /\ log[1] = [op |-> "error", k |-> 1]
  /\ log[2] = [op |-> "written", k |-> 2]
  /\ DOMAIN sinkDir = { entries[2][1] \o JsonExt }

(***************************************************************************)
(* C12: for every JSON object O, merge(split(O, no filter), no filter) is  *)
(* O, whatever order split gave the entries in.                            *)
(***************************************************************************)
C12_Case == cmd = "merge" /\ chained /\ pc = "done"

C12_MergeOfSplitIsIdentity ==
  C12_Case => log[Len(log)] = [op |-> "merged", value |-> FromStr(srcText).val]

C12_Witness ==
  /\ C12_Case /\ Len(entries) = 2
  /\ StrLess(entries[2][1], entries[1][1])
  /\ entries[1][2] # entries[2][2]

(***************************************************************************)
(* C13: the filter inclusion rule of merge and split: an entry is in the   *)
(* result iff no filter is given, or the filter does not compile, or the   *)
(* pattern matches the entry's name; an included entry has its value (in   *)
(* merge, where names may repeat, the value of the last included entry of  *)
(* that name).                                                             *)
(***************************************************************************)
Included(name) ==
  \/ ~filter.some
  \/ ~regex_new(filter.v).some
  \/ is_match(filter.v, name)

\* the value of the last included entry of the list with this name
LastIncluded(es, name) ==
  es[CHOOSE k \in 1..Len(es) :
       /\ es[k][1] = name /\ Included(name)
       /\ \A j \in (k + 1)..Len(es) : es[j][1] # name][2]

C13_Case == cmd \in {"split", "merge"} /\ ~chained /\ pc = "done" /\ result = "Ok"

C13_FilterInclusionRule ==
  C13_Case =>
    /\ cmd = "split" =>
         LET o == FromStr(srcText).val.o IN
         /\ { entries[k] : k \in 1..Len(entries) }
              = { o[k] : k \in { j \in 1..Len(o) : Included(o[j][1]) } }
         /\ Len(entries) = Cardinality({ j \in 1..Len(o) : Included(o[j][1]) })
    /\ cmd = "merge" =>
         LET m == log[Len(log)].value.o IN
         /\ { m[k][1] : k \in 1..Len(m) }
              = { entries[k][1] : k \in { j \in 1..Len(entries) : Included(entries[j][1]) } }
         /\ \A k \in 1..Len(m) : m[k][2] = LastIncluded(entries, m[k][1])

\* a valid filter that drops one entry and keeps another
C13_Witness ==
  /\ C13_Case /\ cmd = "merge" /\ filter = Some(<<"^", "a">>)
  /\ Len(entries) = 2 /\ entries[1][1] = <<"b">> /\ entries[2][1] = <<"a", "b">>
  /\ Len(log[Len(log)].value.o) = 1

(***************************************************************************)
(* C16: concurrent appends to a File sink never interleave: at every       *)
(* moment the bytes written to the shared writer are whole rows (a call's  *)
(* serialized value and then its newline) in the order the rows were       *)
(* begun, the last of them without its newline only while its writer is    *)
(* between the two writes; a call that returned Ok has written one row per *)
(* value, an append and a write_entries of FileOutput in the order of its  *)
(* values and Output::write_entries, whose workers append the entries one  *)
(* by one, in some order; and when the sink is dropped the file receives   *)
(* these rows from the first on, unaltered (all of them unless the flush   *)
(* fails), after what it held when an Output::File was made over it.       *)
(***************************************************************************)
RowEvents == SelectSeq(log, LAMBDA e : e.op = "row")

RECURSIVE RowsBegun(_)
RowsBegun(rs) ==
  IF rs = <<>> THEN <<>>
  ELSE Serialize(Head(rs).value, Head(rs).pretty) \o << NL >> \o RowsBegun(Tail(rs))

IsPrefix(a, b) == Len(a) <= Len(b) /\ a = SubSeq(b, 1, Len(a))

WholeRows ==
  LET whole == RowsBegun(RowEvents) IN
  IF \E t \in DOMAIN threads : threads[t].pc = "row"
    THEN writer.held = SubSeq(whole, 1, Len(whole) - 1)
    ELSE writer.held = whole

RowsOfThread(t) == SelectSeq(RowEvents, LAMBDA e : e.t = t)

\* the orders in which n entries can be taken
Orders(n) == { f \in [1..n -> 1..n] : \A a, b \in 1..n : f[a] = f[b] => a = b }

\* clones of one File sink used for append and write_entries (and by other
\* holders of its Mutex)
C16_Case ==
  /\ cmd = "sink" /\ sinkKind = "File"
  /\ \A t \in DOMAIN threads : threads[t].job # "write"

InsideRow == { t \in DOMAIN threads : threads[t].pc \in {"value", "row"} }

C17_StdoutRowsNeverInterleave ==
  (/\ cmd = "sink" /\ sinkKind = "Stdout"
   /\ \A t \in DOMAIN threads : threads[t].job \in {"append", "write_entries"}) =>
    /\ Cardinality(InsideRow) <= 1
    /\ IsPrefix(sinkText, RowsBegun(RowEvents))
    /\ InsideRow = {} => sinkText = RowsBegun(RowEvents)

(***************************************************************************)
(* C15: the operations that make no sense for a directory fail and change  *)
(* nothing: append on a Directory sink, get_object on a Directory source   *)
(* and read_line on a Directory source each return an error; no byte is    *)
(* written, no file is created, nothing is consumed from the source and    *)
(* the caller's buffer is what it was before the call.                     *)
(***************************************************************************)
Returned(t) == threads[t].pc \in {"returned", "panicked"}

NothingWritten == sinkText = <<>> /\ sinkDir = NoFiles

C15_DirectoryOperationsFail ==
  /\ (cmd = "sink" /\ sinkKind = "Directory") =>
       /\ NothingWritten
       /\ \A t \in DOMAIN threads : Returned(t) => threads[t].result = "Err"
  /\ (cmd = "source" /\ srcKind = "Directory") =>
       /\ NothingWritten /\ srcPos = 1
       /\ \A t \in DOMAIN threads :
            /\ threads[t].buf = threads[t].buf0
            /\ Returned(t) => threads[t].result = "Err"

\* a failed append on a Directory sink
C15_Witness ==
  /\ cmd = "sink" /\ sinkKind = "Directory"
  /\ \A t \in DOMAIN threads : Returned(t) /\ threads[t].job = "append"

\* a failed read_line into a buffer that held text and a failed get_object
\* on a Directory source
C15_WitnessSource ==
  /\ cmd = "source" /\ srcKind = "Directory" /\ Len(threads) = 2
  /\ threads[1].job = "read_line" /\ threads[1].buf0 # <<>> /\ Returned(1)
  /\ threads[2].job = "get_object" /\ Returned(2)

(***************************************************************************)
(* C18: concurrent read_line calls on one File or Stdin source are         *)
(* serialized by the shared lock: the k-th call to return has received the *)
(* k-th line of the input, whole (or the empty chunk once the input is     *)
(* used up), so every line goes to exactly one caller, none is split or    *)
(* delivered twice, and each caller receives its lines in input order; the *)
(* bytes consumed so far are the delivered lines and the part of a line    *)
(* the one caller inside the lock has taken.                               *)
(***************************************************************************)
LineEvents == SelectSeq(log, LAMBDA e : e.op = "line")

InsideRead == { t \in DOMAIN threads : threads[t].job = "read_line" /\ threads[t].pc = "locked" }

\* the callers that take bytes from the shared reader are read_line calls,
\* and no read has failed inside a line
C18_Case ==
  /\ cmd = "source" /\ srcKind \in {"File", "Stdin"}
  /\ \A t \in DOMAIN threads :
       /\ threads[t].job # "read"
       /\ threads[t].job = "get_object" => srcKind = "File"
       /\ threads[t].result = "Err" => threads[t].got = <<>>

C18_ReadLineIsSerialized ==
  C18_Case =>
    /\ \A k \in 1..Len(LineEvents) :
         LineEvents[k].line = IF k <= Len(LinesOf(srcText)) THEN LinesOf(srcText)[k] ELSE <<>>
    /\ Cardinality(InsideRead) <= 1
    /\ \A t \in InsideRead :
         threads[t].got = SubSeq(srcText, srcPos - Len(threads[t].got), srcPos - 1)
    /\ \A t \in DOMAIN threads :
         (threads[t].job = "read_line" /\ threads[t].result = "Ok") =>
           /\ Len(SelectSeq(LineEvents, LAMBDA e : e.t = t)) = threads[t].calls
           /\ threads[t].buf =
                threads[t].buf0 \o Concat([k \in 1..threads[t].calls |->
                                              SelectSeq(LineEvents, LAMBDA e : e.t = t)[k].line])

\* two callers at work on a two-line input: the second caller got the first
\* line, the first caller has taken a part of the second line
C18_Witness ==
  /\ C18_Case /\ Len(threads) = 2 /\ Len(LinesOf(srcText)) = 2
  /\ Len(LineEvents) = 1 /\ LineEvents[1].t = 2
  /\ InsideRead = {1} /\ threads[1].got # <<>>

(***************************************************************************)
(* C19: a failure to acquire the shared lock, such as a lock poisoned by   *)
(* a panic in another holder, is returned as an error by read_line, append *)
(* and write_entries and never makes the operation panic.  FileOutput      *)
(* takes the lock with expect(), which panics on a poisoned lock.          *)
(***************************************************************************)
C19_LockFailureIsAnError ==
  cmd \in {"sink", "source"} =>
    \A t \in DOMAIN threads :
      threads[t].job \in {"read_line", "append", "write_entries"} =>
        threads[t].result # "panic"

(***************************************************************************)
(* C20: unescape(escape(v)) = v for every JSON value v that is not a       *)
(* string at the top level, arrays and objects holding strings with quote  *)
(* or backslash characters included.  unescape replaces every \" of the    *)
(* text by " before it parses, so such a text no longer parses.            *)
(***************************************************************************)
C20_UnescapeInvertsEscape ==
  (cmd = "codec" /\ pc = "done" /\ log[1].value.t # "str") =>
    log[3].value = log[1].value

(***************************************************************************)
(* C21: escape returns a JSON string for every value: a string is returned *)
(* as it is, never encoded a second time, and any other value becomes the  *)
(* string holding its compact JSON text; so escape(escape(v)) = escape(v). *)
(***************************************************************************)
C21_EscapeGivesAString ==
  (cmd = "codec" /\ pc \in {"escaped", "escaped_twice"}) =>
    /\ log[2].value.t = "str"
    /\ log[1].value.t = "str" => log[2].value = log[1].value
    /\ log[1].value.t # "str" => log[2].value.s = SerAt(log[1].value, FALSE, 0)
    /\ pc = "escaped_twice" => log[3].value = log[2].value

\* escape applied twice to a string that holds a quote
C21_Witness ==
  /\ cmd = "codec" /\ pc = "escaped_twice"
  /\ log[1].value = JStr(<< "a", QUOTE, "b" >>)

(***************************************************************************)
(* C22: unescape never fails: a value that is no string is returned as it  *)
(* is, a string that parses as JSON is replaced by the parsed value and a  *)
(* string that does not parse is replaced by null.  unescape parses the    *)
(* string only after it has replaced every \" by ", so a string that       *)
(* parses can become null and a string that does not parse can become a    *)
(* value.                                                                  *)
(***************************************************************************)
C22_UnescapeParsesTheString ==
  (cmd = "codec" /\ pc = "unescaped") =>
    LET v == log[1].value
        out == log[2].value
    IN /\ v.t # "str" => out = v
       /\ (v.t = "str" /\ FromStr(v.s).ok) => out = FromStr(v.s).val
       /\ (v.t = "str" /\ ~FromStr(v.s).ok) => out = JNull

(***************************************************************************)
(* C23: a field path that does not resolve in a document is a no-op: the   *)
(* document bundle appends (unbundle writes) is the document read, with    *)
(* the codec applied to exactly the members the configured paths name and  *)
(* every other member unchanged; a document in which no path resolves is   *)
(* emitted unchanged; every document is still emitted and the run ends Ok. *)
(***************************************************************************)
FieldKeys == { fields[k] : k \in 1..Len(fields) }

Recoded(doc, F(_)) ==
  IF doc.t # "obj" THEN doc
  ELSE JObj([k \in 1..Len(doc.o) |->
              << doc.o[k][1],
                 IF doc.o[k][1] \in FieldKeys THEN F(doc.o[k][2]) ELSE doc.o[k][2] >>])

Resolves(doc) == doc.t = "obj" /\ \E key \in FieldKeys : ObjHas(doc.o, key)

C23_Case == cmd \in {"bundle", "unbundle"} /\ fields # <<>> /\ ~chained

C23_MissingPathIsNoOp ==
  C23_Case =>
    /\ cmd = "bundle" =>
         /\ \A k \in 1..Len(Appends) :
              \E f \in DOMAIN srcDir :
                /\ file_stem(f) = Appends[k].file
                /\ Appends[k].value = Recoded(FromStr(srcDir[f]).val, escape)
                /\ ~Resolves(FromStr(srcDir[f]).val) => Appends[k].value = FromStr(srcDir[f]).val
         /\ (pc = "done" /\ srcKind = "Directory" /\ sinkKind # "Directory"
               /\ \A f \in DOMAIN srcDir : FromStr(srcDir[f]).ok) =>
              result = "Ok" /\ Len(Appends) = Cardinality(DOMAIN srcDir)
    /\ cmd = "unbundle" =>
         /\ \A k \in 1..Len(Writes) :
              LET doc == FromStr(LinesOf(srcText)[Writes[k].i + 1]).val IN
              /\ Writes[k].value = Recoded(doc, unescape)
              /\ ~Resolves(doc) => Writes[k].value = doc
         /\ (pc = "done" /\ Running /\ AllLinesParse(srcText)) =>
              result = "Ok" /\ Len(Writes) = Len(LinesOf(srcText))

\* unbundle with the paths q and t has written a row that has neither and a
\* row that has t only
C23_Witness ==
  /\ cmd = "unbundle" /\ Len(fields) = 2 /\ pc = "done" /\ result = "Ok"
  /\ Len(Writes) = 2
  /\ Writes[1].value = RowA
  /\ FromStr(LinesOf(srcText)[2]).val = RowB /\ Writes[2].value # RowB

(***************************************************************************)
(* C24: unbundling to a File or Stdout sink succeeds and appends, for each *)
(* parsed row in input line order, exactly one newline-terminated row that *)
(* is the single-key object {derived name: row}; as many rows are appended *)
(* as rows were parsed.  ndjson::unbundle refuses a File sink and prints   *)
(* the bare row on standard output.                                        *)
(***************************************************************************)
Unbundling == cmd \in {"unbundle", "unbundle_legacy"}

RECURSIVE NamedRows(_, _)
NamedRows(ws, p) ==
  IF ws = <<>> THEN <<>>
  ELSE SerAt(JObj(<< << Head(ws).name, Head(ws).value >> >>), p, 0) \o << NL >>
         \o NamedRows(Tail(ws), p)

\* the lines the loop parses: the well-formed ones before the line it ends at
ParsedLines ==
  { k \in 1..Len(LinesOf(srcText)) :
      FromStr(LinesOf(srcText)[k]).ok /\ \A j \in 1..(k - 1) : ~EndsLoop(LinesOf(srcText)[j]) }

C24_Case == Unbundling /\ sinkKind \in {"File", "Stdout"} /\ srcKind # "Directory"

C24_OneNamedRowPerParsedRow ==
  C24_Case =>
    /\ result \notin {"Err", "panic"}
    /\ sinkText = NamedRows(Writes, pretty)
    /\ \A k \in 1..Len(Writes) :
         /\ (Writes[k].i + 1) \in ParsedLines
         /\ k > 1 => Writes[k - 1].i < Writes[k].i
    /\ pc = "done" => Len(Writes) = Cardinality(ParsedLines)

\* NdjsonUnbundler has written two rows to a File sink
C24_NewCodeWitness ==
  /\ cmd = "unbundle" /\ sinkKind = "File" /\ pc = "done" /\ Len(Writes) = 2

(***************************************************************************)
(* C25 as stated: from an argument string, "-" gives the standard-stream   *)
(* variant, a path that is an existing directory gives Directory and every *)
(* other path gives File, created when it does not exist: a path that does *)
(* not exist never gives a Directory, and never an error merely because    *)
(* the file is absent.                                                     *)
(***************************************************************************)
Constructed == IF pc = "input" THEN srcKind ELSE sinkKind

C25_EveryOtherPathIsAFile ==
  (cmd = "from_str" /\ pc \in {"input", "output"}) =>
    IF buf = <<"-">> THEN Constructed \in {"Stdin", "Stdout"}
    ELSE IF log[1].kind = "dir" THEN Constructed = "Directory"
    ELSE /\ Constructed # "Directory"
         /\ log[1].openOk => (Constructed = "File" /\ buf \in DOMAIN sinkDir)

(***************************************************************************)
(* C25 amended: "-" gives the standard-stream variant and an existing      *)
(* directory gives Directory.  For a source every other path gives File    *)
(* when the file exists and can be opened, and an error otherwise: a       *)
(* source never creates a file.  For a sink a path that is no existing     *)
(* directory gives Directory when its file name has no extension (nothing  *)
(* is created), and File when it has one: the file is created empty when   *)
(* absent, an existing file keeps what it holds, and the outcome is an     *)
(* error only when the file cannot be opened or created.                   *)
(***************************************************************************)
LastName(path) ==
  LET RECURSIVE After(_)
      After(k) == IF k = 0 \/ path[k] = "/" THEN SubSeq(path, k + 1, Len(path)) ELSE After(k - 1)
  IN After(Len(path))

\* a dot that is not the first character of the file name
HasExtension(path) == \E k \in 2..Len(LastName(path)) : LastName(path)[k] = "."

C25_Case == cmd = "from_str" /\ pc \in {"input", "output"}

C25_ConstructionByPathAndExtension ==
  C25_Case =>
    LET kind == log[1].kind
        openOk == log[1].openOk
        before == IF kind = "file" THEN (buf :> << "1", NL >>) ELSE NoFiles
    IN /\ buf = <<"-">> => (Constructed = IF pc = "input" THEN "Stdin" ELSE "Stdout") /\ sinkDir = before
       /\ (buf # <<"-">> /\ kind = "dir") => Constructed = "Directory" /\ sinkDir = before
       /\ (buf # <<"-">> /\ kind # "dir" /\ pc = "input") =>
            /\ Constructed = IF kind = "file" /\ openOk THEN "File" ELSE "Err"
            /\ sinkDir = before
       /\ (buf # <<"-">> /\ kind # "dir" /\ pc = "output") =>
            IF ~HasExtension(buf) THEN Constructed = "Directory" /\ sinkDir = before
            ELSE IF ~openOk THEN Constructed = "Err" /\ sinkDir = before
            ELSE /\ Constructed = "File"
                 /\ sinkDir = IF kind = "file" THEN before ELSE (buf :> <<>>)

\* a sink made from a path that does not exist and has no extension
C25_Witness ==
  /\ C25_Case /\ pc = "output" /\ buf = <<"o">> /\ log[1].kind = "absent"
  /\ sinkKind = "Directory"

(***************************************************************************)
(* C26: entry names are unique within one collection load: the entries     *)
(* get_entries returns for a Directory source hold no two entries with the *)
(* same name, also when the directory holds files that share a stem and    *)
(* differ in extension.  read_entries names every file of the directory by *)
(* its stem.                                                               *)
(***************************************************************************)
C26_EntryNamesAreUnique ==
  (cmd = "bundle" /\ srcKind = "Directory" /\ pc \in {"scan", "emit"}) => DistinctNames(entries)

(***************************************************************************)
(* C27: every operation takes the shared lock at most once and has         *)
(* released it when it returns, on success and on every error path: the    *)
(* holder of the lock is a call between its acquisition and its return, a  *)
(* call never takes the lock while it holds it, and so every finite set of *)
(* concurrent read_line, append and write_entries calls on clones of one   *)
(* instance completes, with the lock free at the end.                      *)
(* Output::write_entries on a File sink takes the lock once for each of    *)
(* its entries, through append.                                            *)
(***************************************************************************)
Holding(t) == threads[t].pc \in {"locked", "row"} /\ ~(cmd = "sink" /\ sinkKind = "Stdout")

LockIsHeldByACallInProgress ==
  /\ lock.holder # 0 => (lock.holder \in DOMAIN threads /\ Holding(lock.holder))
  /\ \A t \in DOMAIN threads :
       /\ Holding(t) => lock.holder = t
       /\ Returned(t) => lock.holder # t
  /\ ~lock.poisoned

\* a call takes the lock only while it does not hold it
NeverLocksWhileHolding ==
  \A t \in DOMAIN threads : threads'[t].locks > threads[t].locks => ~Holding(t)

AllCallsReturned == \A t \in DOMAIN threads : Returned(t) /\ threads[t].result \in {"Ok", "Err"}

\* C27 as stated: at most one acquisition in every operation
C27_LockTakenOncePerOperation ==
  /\ [](cmd \in {"sink", "source"} =>
          /\ LockIsHeldByACallInProgress
          /\ \A t \in DOMAIN threads : threads[t].locks <= 1)
  /\ [][NeverLocksWhileHolding]_vars
  /\ <>[](AllCallsReturned /\ lock = Unlocked)

\* C27, amended: at most one acquisition in every read_line and append call
\* and in every write_entries call of FileOutput, one for each entry in a
\* write_entries call of Output on a File sink; the lock is released at
\* every return and never taken by its holder; all calls complete
C27_LockReleasedAndCallsComplete ==
  /\ [](cmd \in {"sink", "source"} =>
          /\ LockIsHeldByACallInProgress
          /\ \A t \in DOMAIN threads :
               threads[t].locks <= IF threads[t].job = "write_entries_par"
                                     THEN Len(threads[t].rows) ELSE 1)
  /\ [][NeverLocksWhileHolding]_vars
  /\ <>[](AllCallsReturned /\ lock = Unlocked)

\* an append to a File sink has returned an Err from inside the lock, of a
\* failed write of the full buffer, and an Output::write_entries call has
\* taken the lock after it, for its second entry
C27_Witness ==
  /\ cmd = "sink" /\ sinkKind = "File" /\ Len(threads) = 2
  /\ threads[1].job = "append" /\ threads[1].rows[1].t # "failing"
  /\ threads[1].pc = "returned" /\ threads[1].result = "Err"
  /\ threads[2].job = "write_entries_par" /\ threads[2].locks = 2
  /\ lock.holder = 2

(***************************************************************************)
(* C28: in unbundle the sequence counter advances by exactly one for every *)
(* line read before the loop stops, the lines skipped as malformed         *)
(* included: the k-th line the loop handles is handled with counter k - 1, *)
(* so the default name of a parsed row is object-<its zero-based line      *)
(* index>, the default names of distinct rows are distinct and increase in *)
(* input order, and they have a gap at every skipped line.                 *)
(***************************************************************************)
Handled == SelectSeq(log, LAMBDA e : e.op \in {"write", "skip"})

C28_Case == Unbundling /\ srcKind # "Directory"

C28_CounterIsTheLineIndex ==
  C28_Case =>
    /\ \A k \in 1..Len(Handled) :
         /\ Handled[k].i = k - 1
         /\ Handled[k].op = "write" <=> FromStr(LinesOf(srcText)[k]).ok
         /\ (Handled[k].op = "write" /\ namePaths = <<>> /\ typePath = None) =>
              Handled[k].name = ObjectName(k - 1)
    /\ pc = "read" => i = Len(Handled)
    /\ \A j, k \in 1..Len(Writes) : j < k => Writes[j].i < Writes[k].i

\* a skipped first line, then a parsed row named object-000001
C28_Witness ==
  /\ C28_Case /\ namePaths = <<>> /\ typePath = None
  /\ Len(Handled) = 2 /\ Handled[1].op = "skip"
  /\ Handled[2].op = "write" /\ Handled[2].name = ObjectName(1)

(***************************************************************************)
(* C29: when two rows of one unbundle run derive the same name and the     *)
(* sink is a Directory, the file <name>.json holds the complete value of   *)
(* the row that occurs later in the input (the earlier row is overwritten, *)
(* never merged or corrupted), and the number of files written equals the  *)
(* number of distinct derived names.                                       *)
(***************************************************************************)
Written == SelectSeq(log, LAMBDA e : e.op = "write" /\ e.ok)
DerivedNames == { Written[k].name : k \in 1..Len(Written) }
\* the last row written under a name
LastNamed(name) ==
  Written[CHOOSE k \in 1..Len(Written) :
            /\ Written[k].name = name
            /\ \A j \in (k + 1)..Len(Written) : Written[j].name # name]

C29_Case == cmd = "unbundle" /\ sinkKind = "Directory" /\ srcKind # "Directory"

C29_LaterRowWins ==
  C29_Case =>
    /\ \A name \in DerivedNames :
         /\ (name \o JsonExt) \in DOMAIN sinkDir
         /\ sinkDir[name \o JsonExt] = Serialize(LastNamed(name).value, pretty)
    /\ Cardinality(DOMAIN sinkDir) = Cardinality(DerivedNames)

\* the same property of the rows whose names hold no path separator
NoSeparator(name) == \A k \in 1..Len(name) : name[k] # "/"

C29_LaterRowWinsWithoutSeparators ==
  (C29_Case /\ \A name \in DerivedNames : NoSeparator(name)) =>
    /\ \A name \in DerivedNames :
         /\ (name \o JsonExt) \in DOMAIN sinkDir
         /\ sinkDir[name \o JsonExt] = Serialize(LastNamed(name).value, pretty)
    /\ Cardinality(DOMAIN sinkDir) = Cardinality(DerivedNames)

\* two different rows named a: the file a.json holds the second one
C29_OverwriteWitness ==
  /\ C29_Case /\ pc = "done" /\ Len(Written) = 2
  /\ Written[1].name = <<"a">> /\ Written[2].name = <<"a">>
  /\ Written[1].value # Written[2].value
  /\ DOMAIN sinkDir = { <<"a">> \o JsonExt }
  /\ sinkDir[<<"a">> \o JsonExt] = Serialize(Written[2].value, pretty)

(***************************************************************************)
(* C30: unbundle terminates on every finite input.  Once the source is     *)
(* exhausted read_line yields an empty chunk, the parse of the empty       *)
(* buffer fails with unexpected-end-of-input and the loop exits with Ok;   *)
(* every run reaches the end of the command and stays there, whether or    *)
(* not the last line ends with a newline and whatever malformed lines the  *)
(* input has.                                                              *)
(***************************************************************************)
Exhausted == srcPos > Len(srcText)

\* a read of the exhausted source leaves the buffer empty, and the loop exits
\* on an empty buffer
ExhaustionEndsTheLoop ==
  /\ (Unbundling /\ pc = "read" /\ Exhausted /\ srcKind # "Directory") =>
       (pc' = "parse" /\ buf' = <<>>)
  /\ (Unbundling /\ pc = "parse" /\ buf = <<>>) =>
       (pc' = "done" /\ result' = "Ok" /\ UNCHANGED << sinkVars, i >>)

C30_UnbundleTerminates ==
  /\ [][ExhaustionEndsTheLoop /\ LoopStep]_vars
  /\ <>[](Unbundling /\ pc = "done" /\ result \in {"Ok", "Err"})

\* a malformed line, then a row without its newline: the row is written, the
\* next read finds the source exhausted and the loop exits on end of input
C30_Witness ==
  /\ Unbundling /\ pc = "done" /\ result = "Ok" /\ Exhausted
  /\ srcText = GarbageLine \o to_string(RowA)
  /\ Len(log) = 6
  /\ log[2].op = "skip" /\ log[4].op = "write"
  /\ log[5].op = "read" /\ log[5].ok /\ log[6].op = "eof"
  /\ buf = <<>>

Init == InitUnbundle \/ InitBundle
Next == NextRoundTrip
Spec == Init /\ [][Next]_vars
====
